---- MODULE Spec2Model ----
(***************************************************************************)
(* GeoRoute: the grid pathfinder (georoute/processing/grid_pathfinder.py). *)
(*                                                                         *)
(* Numbers.  The code computes costs in IEEE doubles: a cardinal step      *)
(* costs 1.0, a diagonal step 1.414, the heuristic is math.sqrt of an      *)
(* integer.  The model counts in units of 1/10000: a cardinal step is      *)
(* 10000, a diagonal step 14140, the heuristic of a squared distance k is  *)
(* floor(10000 * sqrt(k)).  g is then an exact integer, and two f = g + h  *)
(* values of a grid of at most 4 x 4 cells that differ as reals differ by  *)
(* more than one unit, so the order of the scaled integers is the order of *)
(* the doubles (the cell sequences of the model and of the code agree on   *)
(* every 3 x 3 and 3 x 4 mask).                                            *)
(*                                                                         *)
(* Geographic coordinates are integers: a cell spans CellUnits units of    *)
(* latitude and of longitude.                                              *)
(***************************************************************************)
EXTENDS Integers, Sequences, FiniteSets

\* ---------------------------------------------------------------- bounds

\* Largest grid side: grids are grid_h x grid_w with both in 1..MaxDim.
MaxDim == 3

\* Largest grid area: grid_h * grid_w <= MaxCells.
MaxCells == 9

\* Geographic units per grid cell (positions inside a cell are distinct).
CellUnits == 2

\* Longest cell path handed to _simplify_path on its own.
MaxPathLen == 17

\* Most obstacle cells of a grid handed to generate_tactical_routes.
MaxRouteObstacles == 1

\* Largest grid side for the placement of the flank anchors on its own.
MaxAnchorDim == 7

\* Largest grid_size of the obstacle detector's combination of reports.
MaxGridSize == 2

\* Most cells in one report (buildings, traversable) of the detector.
MaxReported == 3

\* Largest buffer_pixels.
MaxBuffer == 2

\* Largest side of the elevation raster (np.gradient needs at least two
\* rows and two columns).
MaxDemDim == 2

\* Most cells of an elevation raster that are not at elevation 0.
MaxRough == 1

\* Most pixels of a land-cover raster that are not of the default class.
MaxSpecial == 1

\* Largest side of a land-cover raster that is downsampled.
MaxLandDim == 5

\* Largest area of a cost grid handed to PixelPathfinder.find_path.
MaxPixelCells == 6

\* The number of _generate_single_route invocations running at once.
MaxInvocations == 2

\* The length in meters of the longest path smoothed.
MaxLength == 15

\* Binary digits of a float's mantissa in the coordinate conversions: odd,
\* as the 53 digits of the program's floats are.
MantissaBits == 5

\* Largest south edge, and largest extent each way, of the bounds converted.
MaxSouth == 1

MaxSpan == 2

\* Largest max_entries of a BacklogStore, number of request_ids, and most
\* add_entry calls between two clear() calls.
MaxEntries == 2

MaxIds == 3

MaxCalls == 4

\* The number of threads calling add_entry at once.
MaxAdders == 2

\* Largest area of an obstacle mask in the check of termination.
MaxFairCells == 6

\* Most obstacles of the wider masks in the check of termination.
MaxFairObstacles == 3

\* Geographic units per grid cell on the obstacle-free grids of the
\* same-row routes: three, so that a position can lie nearer to the south
\* edge of its cell than to the north one.
RowCellUnits == 3

\* ------------------------------------------------------- program constants

\* self.costs: 1.0 for a cardinal move, in units of 1/10000.
CardinalCost == 10000

\* self.costs: 1.414 for a diagonal move, in units of 1/10000.
DiagonalCost == 14140

\* The scale of the cost unit: 10000 units are one cell side.
CostScale == 10000

\* _simplify_path's max_waypoints default.
MaxWaypoints == 15

\* _fallback_path's num_points.
NumPoints == 10

\* create_cost_surface's cell_size default, in metres.
CellSize == 30

\* _find_nearest_passable's max_search default.
MaxSearch == 50

\* create_cost_surface's off_road_factor default 0.6, in tenths.
OffRoadTenths == 6

\* ---------------------------------------------------------------- state

VARIABLES
    grid_h,          \* obstacle_mask.shape[0]
    grid_w,          \* obstacle_mask.shape[1]
    obstacle_mask,   \* [cell -> 0 | 1], 1 = obstacle
    allow_diagonal,  \* GridPathfinder.allow_diagonal
    bounds,          \* [north, south, east, west]
    start_grid,      \* find_path's start_grid argument
    end_grid,        \* find_path's end_grid argument
    pc,              \* where find_path is: "call", "astar", "done"
    start,           \* (start_r, start_c) after the snap: _astar's start
    end,             \* (end_r, end_c) after the snap: _astar's end
    open_set,        \* _astar: the heap, a set of [f_score, counter, pos]
    came_from,       \* _astar: [cell -> cell]
    g_score,         \* _astar: [cell -> cost]
    closed_set,      \* _astar: finalized cells
    counter,         \* _astar: insertion counter
    path_grid,       \* _astar's return value; << >> is None
    result,          \* the PathResult find_path returns
    simplify_in,     \* _simplify_path's argument `path`
    simplify_out,    \* _simplify_path's return value
    start_gps,       \* generate_tactical_routes' start_gps, << lat, lon >>
    end_gps,         \* generate_tactical_routes' end_gps, << lat, lon >>
    single_route,    \* generate_tactical_routes' single_route
    left_mid,        \* (left_mid_row, left_mid_col); << >> before it is set
    right_mid,       \* (right_mid_row, right_mid_col); << >> before it is set
    legs,            \* << result2a, result2b, result3a, result3b >>; << >> before
    routes,          \* generate_tactical_routes' routes list
    buildings_result,    \* _combine_detection_results: the cells reported as buildings
    traversable_result,  \* _combine_detection_results: the cells reported traversable
    buffer_pixels,       \* GeminiObstacleDetector.buffer_pixels
    buffered_mask,       \* _apply_buffer's return value; << >> before it is set
    dem_shape,           \* create_cost_surface: dem.shape
    landcover_shape,     \* create_cost_surface: landcover.shape
    dem,                 \* create_cost_surface: the elevation raster
    landcover,           \* create_cost_surface: the land-cover raster
    landcover_costs,     \* LANDCOVER_COSTS: [class -> multiplier or inf]
    final_cost,          \* create_cost_surface's return value; << >> before it is set
    cost_grid,           \* PixelPathfinder.find_path: cost_grid, [cell -> 1 | "inf"]
    start_pixel,         \* PixelPathfinder.find_path: start_pixel
    goal_pixel,          \* PixelPathfinder.find_path: goal_pixel
    pixel_path,          \* find_path's returned path; << >> is None
    tactical_valid,      \* find_tactical_path's path_valid
    conv_cell,           \* grid_to_gps' argument (row, col)
    conv_gps,            \* a (lat, lon) pair of floats; << >> before it is set
    conv_back,           \* gps_to_grid's return value; << >> before it is set
    waypoint_interval_meters,  \* TerrainRouter.pathfinder.waypoint_interval_meters
    invocations,         \* the running _generate_single_route calls
    max_entries,         \* BacklogStore.max_entries
    store,               \* BacklogStore._store, oldest first
    adders,              \* the running add_entry calls
    calls,               \* the entries added since the store was last empty
                         \* by construction or by clear(), oldest first
    bfs_queue,           \* _find_nearest_clear's queue
    bfs_visited,         \* _find_nearest_clear's visited
    astar_current,       \* _astar's current, while its neighbours are looked at
    dir_index            \* the index of the direction the neighbour loop is at

gridVars == << grid_h, grid_w, obstacle_mask, allow_diagonal, bounds >>

callVars == << start_grid, end_grid >>

snapVars == << start, end >>

astarVars == << open_set, came_from, g_score, closed_set, counter >>

simplifyVars == << simplify_in, simplify_out >>

routeVars == << start_gps, end_gps, single_route, left_mid, right_mid, legs, routes >>

detectVars == << buildings_result, traversable_result, buffer_pixels, buffered_mask >>

terrainVars == << dem_shape, landcover_shape, dem, landcover, landcover_costs, final_cost >>

pixelVars == << cost_grid, start_pixel, goal_pixel, pixel_path, tactical_valid >>

convVars == << conv_cell, conv_gps, conv_back >>

threadVars == << waypoint_interval_meters, invocations >>

backlogVars == << max_entries, store, adders, calls >>

stepVars == << bfs_queue, bfs_visited, astar_current, dir_index >>

laterVars == << pixelVars, convVars, threadVars, backlogVars, stepVars >>

vars == << gridVars, callVars, pc, snapVars, astarVars, path_grid, result,
           simplifyVars, routeVars, detectVars, terrainVars, laterVars >>

\* ------------------------------------------------------------- helpers

Min(a, b) == IF a < b THEN a ELSE b

Max(a, b) == IF a > b THEN a ELSE b

Abs(x) == IF x < 0 THEN -x ELSE x

\* int(): truncation toward zero of the rational num / den, den > 0.
TruncDiv(num, den) == IF num >= 0 THEN num \div den ELSE -((-num) \div den)

Cells(h, w) == (0 .. h - 1) \X (0 .. w - 1)

InGrid(r, c, h, w) == 0 <= r /\ r < h /\ 0 <= c /\ c < w

SeqToSet(s) == { s[i] : i \in 1 .. Len(s) }

Reverse(s) == [ i \in 1 .. Len(s) |-> s[Len(s) + 1 - i] ]

\* floor(sqrt(n)) by bisection on lo <= sqrt(n) < hi.
RECURSIVE IsqrtBetween(_, _, _)
IsqrtBetween(n, lo, hi) ==
    IF hi - lo <= 1 THEN lo
    ELSE LET mid == (lo + hi) \div 2
         IN  IF mid * mid <= n THEN IsqrtBetween(n, mid, hi)
             ELSE IsqrtBetween(n, lo, mid)

Isqrt(n) == IsqrtBetween(n, 0, 46341)

\* ------------------------------------------------ GridPathfinder.__init__

Directions(diag) ==
    IF diag
    THEN << <<-1, -1>>, <<-1, 0>>, <<-1, 1>>,
            <<0, -1>>,             <<0, 1>>,
            <<1, -1>>,  <<1, 0>>,  <<1, 1>> >>
    ELSE << <<-1, 0>>, <<0, -1>>, <<0, 1>>, <<1, 0>> >>

MoveCosts(diag) ==
    IF diag
    THEN << DiagonalCost, CardinalCost, DiagonalCost,
            CardinalCost,               CardinalCost,
            DiagonalCost, CardinalCost, DiagonalCost >>
    ELSE << CardinalCost, CardinalCost, CardinalCost, CardinalCost >>

\* ------------------------------------------------------------ _astar

\* (pos[0] - end[0])**2 + (pos[1] - end[1])**2: the heuristic's radicand.
HeuristicSq(pos, e) ==
    (pos[1] - e[1]) * (pos[1] - e[1]) + (pos[2] - e[2]) * (pos[2] - e[2])

\* The shape of the smallest grid on which _astar pops a cell that is in
\* the closed set: 3 rows, 4 columns.
WideShape == << 3, 4 >>

\* floor(CostScale * sqrt(k)) for every radicand of a grid of side MaxDim
\* and of the grid of WideShape.
SqrtTable ==
    [ k \in 0 .. Max(2 * (MaxDim - 1) * (MaxDim - 1),
                     (WideShape[1] - 1) * (WideShape[1] - 1)
                         + (WideShape[2] - 1) * (WideShape[2] - 1))
        |-> Isqrt(k * CostScale * CostScale) ]

\* heuristic(pos): the Euclidean distance to end, in cost units.
Heuristic(pos, e) == SqrtTable[HeuristicSq(pos, e)]

\* Python's tuple order on heap entries (f_score, counter, position).
EntryLess(a, b) ==
    \/ a.f_score < b.f_score
    \/ /\ a.f_score = b.f_score
       /\ \/ a.counter < b.counter
          \/ /\ a.counter = b.counter
             /\ \/ a.pos[1] < b.pos[1]
                \/ a.pos[1] = b.pos[1] /\ a.pos[2] < b.pos[2]

\* heapq.heappop: the least entry of the heap.
HeapPop(heap) == CHOOSE e \in heap : \A o \in heap \ {e} : EntryLess(e, o)

\* A counter that is never advanced.
NextCounterStuck(c) == c

\* counter += 1 before a push.
NextCounter(c) == c + 1

\* The search state when _astar enters its loop.
AstarInit(s, e) ==
    [ open_set   |-> { [f_score |-> Heuristic(s, e), counter |-> 0, pos |-> s] },
      came_from  |-> << >>,
      g_score    |-> [ p \in {s} |-> 0 ],
      closed_set |-> {},
      counter    |-> 0 ]

\* Whether the neighbour loop skips the neighbour (bounds, obstacle, closed).
SkipNeighbor(mask, h, w, st, nb) ==
    \/ ~InGrid(nb[1], nb[2], h, w)
    \/ mask[nb] = 1
    \/ nb \in st.closed_set

\* One pass of the neighbour loop: direction i from `current`.
Relax(mask, h, w, diag, e, st, current, i) ==
    LET d  == Directions(diag)[i]
        nb == << current[1] + d[1], current[2] + d[2] >>
    IN  IF SkipNeighbor(mask, h, w, st, nb) THEN st
        ELSE LET tentative_g == st.g_score[current] + MoveCosts(diag)[i]
             IN  IF nb \notin DOMAIN st.g_score \/ tentative_g < st.g_score[nb]
                 THEN [ open_set   |-> st.open_set \cup
                                       { [f_score |-> tentative_g + Heuristic(nb, e),
                                          counter |-> NextCounter(st.counter),
                                          pos     |-> nb] },
                        came_from  |-> [ p \in DOMAIN st.came_from \cup {nb} |->
                                           IF p = nb THEN current ELSE st.came_from[p] ],
                        g_score    |-> [ p \in DOMAIN st.g_score \cup {nb} |->
                                           IF p = nb THEN tentative_g ELSE st.g_score[p] ],
                        closed_set |-> st.closed_set,
                        counter    |-> NextCounter(st.counter) ]
                 ELSE st

\* The neighbour loop from direction i on.
RECURSIVE Expand(_, _, _, _, _, _, _, _)
Expand(mask, h, w, diag, e, st, current, i) ==
    IF i > Len(Directions(diag)) THEN st
    ELSE Expand(mask, h, w, diag, e,
                Relax(mask, h, w, diag, e, st, current, i), current, i + 1)

\* The path reconstruction, from `current` back to the start (reversed order).
RECURSIVE Backtrack(_, _)
Backtrack(cf, current) ==
    IF current \in DOMAIN cf
    THEN << current >> \o Backtrack(cf, cf[current])
    ELSE << current >>

\* The path as it is collected, from `current` back, not reversed.
ReconstructPathBackwards(cf, current) == Backtrack(cf, current)

\* path.reverse() after the collection.
ReconstructPath(cf, current) == Reverse(Backtrack(cf, current))

\* One iteration of `while open_set`: what it pops and what it leaves.
\* kind: "skip" (already closed), "found" (current == end), "expand".
AstarIterate(mask, h, w, diag, e, st) ==
    LET top     == HeapPop(st.open_set)
        current == top.pos
        popped  == [ st EXCEPT !.open_set = st.open_set \ {top} ]
    IN  IF current \in st.closed_set
        THEN [ kind |-> "skip", st |-> popped, path |-> << >> ]
        ELSE IF current = e
        THEN [ kind |-> "found", st |-> popped,
               path |-> ReconstructPath(st.came_from, current) ]
        ELSE [ kind |-> "expand",
               st   |-> Expand(mask, h, w, diag, e,
                               [ popped EXCEPT !.closed_set = popped.closed_set \cup {current} ],
                               current, 1),
               path |-> << >> ]

\* _astar from a search state to its return value (<< >> is None).
RECURSIVE AstarRun(_, _, _, _, _, _)
AstarRun(mask, h, w, diag, e, st) ==
    IF st.open_set = {} THEN << >>
    ELSE LET it == AstarIterate(mask, h, w, diag, e, st)
         IN  IF it.kind = "found" THEN it.path
             ELSE AstarRun(mask, h, w, diag, e, it.st)

Astar(mask, h, w, diag, s, e) == AstarRun(mask, h, w, diag, e, AstarInit(s, e))

\* ------------------------------------------------- _find_nearest_clear

\* The neighbour order without the move up.
BfsDirectionsNoUp == << <<1, 0>>, <<0, -1>>, <<0, 1>> >>

BfsDirections == << <<-1, 0>>, <<1, 0>>, <<0, -1>>, <<0, 1>> >>

\* The neighbours of (r, c) in the grid, visited before or not.
BfsNeighborsAll(h, w, cell, visited, i) ==
    SelectSeq([ k \in 1 .. Len(BfsDirections) |->
                  << cell[1] + BfsDirections[k][1], cell[2] + BfsDirections[k][2] >> ],
              LAMBDA nb : InGrid(nb[1], nb[2], h, w))

\* The neighbours the loop appends for (r, c), in its order.
RECURSIVE BfsNeighbors(_, _, _, _, _)
BfsNeighbors(h, w, cell, visited, i) ==
    IF i > Len(BfsDirections) THEN << >>
    ELSE LET nb == << cell[1] + BfsDirections[i][1], cell[2] + BfsDirections[i][2] >>
         IN  IF InGrid(nb[1], nb[2], h, w) /\ nb \notin visited
             THEN << nb >> \o BfsNeighbors(h, w, cell, visited \cup {nb}, i + 1)
             ELSE BfsNeighbors(h, w, cell, visited, i + 1)

RECURSIVE Bfs(_, _, _, _, _, _)
Bfs(mask, h, w, queue, visited, origin) ==
    IF queue = << >> THEN origin
    ELSE LET cell == Head(queue)
         IN  IF mask[cell] = 0 THEN cell
             ELSE LET more == BfsNeighbors(h, w, cell, visited, 1)
                  IN  Bfs(mask, h, w, Tail(queue) \o more,
                          visited \cup SeqToSet(more), origin)

FindNearestClear(mask, h, w, cell) == Bfs(mask, h, w, << cell >>, {cell}, cell)

\* The snap of find_path: an endpoint on an obstacle moves, another stays.
SnapEndpoint(mask, h, w, cell) ==
    IF mask[cell] = 1 THEN FindNearestClear(mask, h, w, cell) ELSE cell

\* ------------------------------------------------------ _simplify_path

\* The direction-change loop from index i on; prev_dir << >> is None.
RECURSIVE DirectionChanges(_, _, _, _)
DirectionChanges(path, simplified, prev_dir, i) ==
    IF i > Len(path) THEN simplified
    ELSE LET curr_dir == << path[i][1] - path[i - 1][1], path[i][2] - path[i - 1][2] >>
             keep     == curr_dir # prev_dir /\ path[i - 1] \notin SeqToSet(simplified)
         IN  DirectionChanges(path,
                              IF keep THEN Append(simplified, path[i - 1]) ELSE simplified,
                              curr_dir, i + 1)

\* The indices without the appended last one.
ResampleIndicesNoLast(len, max_waypoints) ==
    [ j \in 1 .. max_waypoints |-> TruncDiv((j - 1) * len, max_waypoints) + 1 ]

\* indices = [int(i * step) for i in range(max - 1)] + [len - 1], 1-based.
ResampleIndices(len, max_waypoints) ==
    [ j \in 1 .. max_waypoints |->
        IF j = max_waypoints THEN len
        ELSE TruncDiv((j - 1) * len, max_waypoints) + 1 ]

Resample(simplified, max_waypoints) ==
    LET idx == ResampleIndices(Len(simplified), max_waypoints)
    IN  [ j \in 1 .. max_waypoints |-> simplified[idx[j]] ]

SimplifyPath(path, max_waypoints) ==
    IF Len(path) <= max_waypoints THEN path
    ELSE IF Len(path) <= 2 THEN path
    ELSE LET simplified == Append(DirectionChanges(path, << path[1] >>, << >>, 2),
                                  path[Len(path)])
         IN  IF Len(simplified) > max_waypoints
             THEN Resample(simplified, max_waypoints)
             ELSE simplified

\* -------------------------------------------------------- _grid_to_gps

\* The bounds whose cells span CellUnits units each way.
BoundsFor(h, w) ==
    [ north |-> h * CellUnits, south |-> 0, east |-> w * CellUnits, west |-> 0 ]

GridToGps(row, col, b, h, w) ==
    << b.north - (row * (b.north - b.south)) \div h,
       b.west + (col * (b.east - b.west)) \div w >>

\* ------------------------------------------------------ _fallback_path

\* The cell of point i (0-based) of the straight line: int(a + t * (b - a)).
FallbackCell(s, e, i) ==
    << TruncDiv((NumPoints - 1) * s[1] + i * (e[1] - s[1]), NumPoints - 1),
       TruncDiv((NumPoints - 1) * s[2] + i * (e[2] - s[2]), NumPoints - 1) >>

FallbackCells(s, e) == [ j \in 1 .. NumPoints |-> FallbackCell(s, e, j - 1) ]

\* The flag _fallback_path returns as path_valid.
FallbackPathValid == TRUE

FallbackPath(s, e, b, h, w) ==
    [ path_valid     |-> FallbackPathValid,
      waypoints      |-> [ j \in 1 .. NumPoints |->
                             GridToGps(FallbackCells(s, e)[j][1],
                                       FallbackCells(s, e)[j][2], b, h, w) ],
      distance_cells |-> Abs(e[1] - s[1]) + Abs(e[2] - s[2]),
      path_clear     |-> FALSE ]

\* ----------------------------------------------------------- find_path

\* The PathResult of a search that found path_cells.
FoundPath(path_cells, b, h, w) ==
    LET simplified_path == SimplifyPath(path_cells, MaxWaypoints)
    IN  [ path_valid     |-> TRUE,
          waypoints      |-> [ j \in 1 .. Len(simplified_path) |->
                                 GridToGps(simplified_path[j][1],
                                           simplified_path[j][2], b, h, w) ],
          distance_cells |-> Len(path_cells),
          path_clear     |-> TRUE ]

\* "Validate positions".
ValidPosition(cell, h, w) == InGrid(cell[1], cell[2], h, w)

\* find_path as a function of its arguments.
FindPath(mask, h, w, diag, s, e, b) ==
    IF ~ValidPosition(s, h, w) \/ ~ValidPosition(e, h, w)
    THEN FallbackPath(s, e, b, h, w)
    ELSE LET path_cells == Astar(mask, h, w, diag,
                                 SnapEndpoint(mask, h, w, s),
                                 SnapEndpoint(mask, h, w, e))
         IN  IF path_cells = << >>
             THEN FallbackPath(s, e, b, h, w)
             ELSE FoundPath(path_cells, b, h, w)

\* ------------------------------------------- find_path, step by step

NoResult == [ path_valid |-> FALSE, waypoints |-> << >>, distance_cells |-> 0,
              path_clear |-> FALSE ]

\* The positions a caller hands to find_path: every cell, and two outside.
Positions(h, w) == Cells(h, w) \cup { <<-1, 0>>, <<h, w - 1>> }

\* The search state held in the variables.
SearchState ==
    [ open_set |-> open_set, came_from |-> came_from, g_score |-> g_score,
      closed_set |-> closed_set, counter |-> counter ]

\* _combine_detection_results and _apply_buffer have not been called.
NoDetection ==
    /\ buildings_result = {}
    /\ traversable_result = {}
    /\ buffer_pixels = 0
    /\ buffered_mask = << >>

\* create_cost_surface has not been called.
NoTerrain ==
    /\ dem_shape = << 1, 1 >>
    /\ landcover_shape = << 1, 1 >>
    /\ dem = << >>
    /\ landcover = << >>
    /\ landcover_costs = << >>
    /\ final_cost = << >>

\* PixelPathfinder.find_path has not been called.
NoPixel ==
    /\ cost_grid = << >>
    /\ start_pixel = << 0, 0 >>
    /\ goal_pixel = << 0, 0 >>
    /\ pixel_path = << >>
    /\ tactical_valid = FALSE

\* No coordinate has been converted.
NoConv ==
    /\ conv_cell = << 0, 0 >>
    /\ conv_gps = << >>
    /\ conv_back = << >>

\* No _generate_single_route call is running.
NoThreads ==
    /\ waypoint_interval_meters = 0
    /\ invocations = << >>

\* No BacklogStore exists.
NoBacklog ==
    /\ max_entries = 0
    /\ store = << >>
    /\ adders = << >>
    /\ calls = << >>

\* find_path is not being run statement by statement.
NoSteps ==
    /\ bfs_queue = << >>
    /\ bfs_visited = {}
    /\ astar_current = << 0, 0 >>
    /\ dir_index = 0

\* generate_tactical_routes has not been called.
NoRoutes ==
    /\ start_gps = << 0, 0 >>
    /\ end_gps = << 0, 0 >>
    /\ single_route = TRUE
    /\ left_mid = << >>
    /\ right_mid = << >>
    /\ legs = << >>
    /\ routes = << >>

Init ==
    /\ NoDetection
    /\ NoTerrain
    /\ NoPixel
    /\ NoConv
    /\ NoThreads
    /\ NoBacklog
    /\ NoSteps
    /\ grid_h \in 1 .. MaxDim
    /\ grid_w \in 1 .. MaxDim
    /\ grid_h * grid_w <= MaxCells
    /\ obstacle_mask \in [ Cells(grid_h, grid_w) -> {0, 1} ]
    /\ allow_diagonal \in BOOLEAN
    /\ bounds = BoundsFor(grid_h, grid_w)
    /\ start_grid \in Positions(grid_h, grid_w)
    /\ end_grid \in Positions(grid_h, grid_w)
    /\ pc = "call"
    /\ start = start_grid
    /\ end = end_grid
    /\ open_set = {}
    /\ came_from = << >>
    /\ g_score = << >>
    /\ closed_set = {}
    /\ counter = 0
    /\ path_grid = << >>
    /\ result = NoResult
    /\ simplify_in = << >>
    /\ simplify_out = << >>
    /\ NoRoutes

\* find_path with a position outside the grid: the fallback, at once.
RejectInvalid ==
    /\ pc = "call"
    /\ ~ValidPosition(start_grid, grid_h, grid_w) \/ ~ValidPosition(end_grid, grid_h, grid_w)
    /\ result' = FallbackPath(start_grid, end_grid, bounds, grid_h, grid_w)
    /\ pc' = "done"
    /\ UNCHANGED << gridVars, callVars, snapVars, astarVars, path_grid, simplifyVars, routeVars,
                    detectVars, terrainVars, laterVars >>

\* find_path up to the first iteration of _astar: the snap, the heap's first entry.
BeginSearch ==
    /\ pc = "call"
    /\ ValidPosition(start_grid, grid_h, grid_w)
    /\ ValidPosition(end_grid, grid_h, grid_w)
    /\ LET s  == SnapEndpoint(obstacle_mask, grid_h, grid_w, start_grid)
           e  == SnapEndpoint(obstacle_mask, grid_h, grid_w, end_grid)
           st == AstarInit(s, e)
       IN  /\ start' = s
           /\ end' = e
           /\ open_set' = st.open_set
           /\ came_from' = st.came_from
           /\ g_score' = st.g_score
           /\ closed_set' = st.closed_set
           /\ counter' = st.counter
    /\ pc' = "astar"
    /\ UNCHANGED << gridVars, callVars, path_grid, result, simplifyVars, routeVars,
                    detectVars, terrainVars, laterVars >>

\* One iteration of _astar's loop that does not return.
AstarStep ==
    /\ pc = "astar"
    /\ open_set # {}
    /\ LET it == AstarIterate(obstacle_mask, grid_h, grid_w, allow_diagonal, end, SearchState)
       IN  /\ it.kind # "found"
           /\ open_set' = it.st.open_set
           /\ came_from' = it.st.came_from
           /\ g_score' = it.st.g_score
           /\ closed_set' = it.st.closed_set
           /\ counter' = it.st.counter
    /\ UNCHANGED << gridVars, callVars, pc, snapVars, path_grid, result, simplifyVars, routeVars,
                    detectVars, terrainVars, laterVars >>

\* The iteration that pops the end cell: _astar returns the path, find_path
\* simplifies it, converts it and returns.
AstarFound ==
    /\ pc = "astar"
    /\ open_set # {}
    /\ LET it == AstarIterate(obstacle_mask, grid_h, grid_w, allow_diagonal, end, SearchState)
       IN  /\ it.kind = "found"
           /\ open_set' = it.st.open_set
           /\ path_grid' = it.path
           /\ result' = FoundPath(it.path, bounds, grid_h, grid_w)
    /\ pc' = "done"
    /\ UNCHANGED << gridVars, callVars, snapVars, came_from, g_score, closed_set,
                    counter, simplifyVars, routeVars,
                    detectVars, terrainVars, laterVars >>

\* The open set is empty: _astar returns None, find_path the fallback.
AstarExhausted ==
    /\ pc = "astar"
    /\ open_set = {}
    /\ path_grid' = << >>
    /\ result' = FallbackPath(start_grid, end_grid, bounds, grid_h, grid_w)
    /\ pc' = "done"
    /\ UNCHANGED << gridVars, callVars, snapVars, astarVars, simplifyVars, routeVars,
                    detectVars, terrainVars, laterVars >>

Next == RejectInvalid \/ BeginSearch \/ AstarStep \/ AstarFound \/ AstarExhausted

Spec == Init /\ [][Next]_vars

\* ------------------------------------------- _simplify_path on its own

\* find_path and _astar at rest.
NoSearch ==
    /\ start_grid = << 0, 0 >>
    /\ end_grid = << 0, 0 >>
    /\ start = << 0, 0 >>
    /\ end = << 0, 0 >>
    /\ open_set = {}
    /\ came_from = << >>
    /\ g_score = << >>
    /\ closed_set = {}
    /\ counter = 0
    /\ path_grid = << >>
    /\ result = NoResult

\* The steps a path is drawn from: east and south-east (a path of distinct
\* cells), or east and west (a path that returns to cells).
StepAlphabets == { { <<0, 1>>, <<1, 1>> }, { <<0, 1>>, <<0, -1>> } }

\* The cell path from (0, 0) by the given steps.
RECURSIVE PathOf(_)
PathOf(steps) ==
    IF steps = << >> THEN << << 0, 0 >> >>
    ELSE LET before == PathOf(SubSeq(steps, 1, Len(steps) - 1))
             last   == before[Len(before)]
             d      == steps[Len(steps)]
         IN  Append(before, << last[1] + d[1], last[2] + d[2] >>)

\* The cell paths of 1 .. MaxPathLen cells.
CellPaths ==
    { PathOf(steps) : steps \in UNION { [ 1 .. n - 1 -> a ] :
                                          n \in 1 .. MaxPathLen, a \in StepAlphabets } }

InitSimplify ==
    /\ NoDetection
    /\ NoTerrain
    /\ NoPixel
    /\ NoConv
    /\ NoThreads
    /\ NoBacklog
    /\ NoSteps
    /\ grid_h = 1
    /\ grid_w = 1
    /\ obstacle_mask = [ c \in Cells(1, 1) |-> 0 ]
    /\ allow_diagonal = TRUE
    /\ bounds = BoundsFor(1, 1)
    /\ NoSearch
    /\ NoRoutes
    /\ pc = "simplify_call"
    /\ simplify_in \in CellPaths
    /\ simplify_out = << >>

\* _simplify_path(path), max_waypoints at its default.
Simplify ==
    /\ pc = "simplify_call"
    /\ simplify_out' = SimplifyPath(simplify_in, MaxWaypoints)
    /\ pc' = "simplify_done"
    /\ UNCHANGED << gridVars, callVars, snapVars, astarVars, path_grid, result,
                    simplify_in, routeVars,
                    detectVars, terrainVars, laterVars >>

NextSimplify == Simplify

SpecSimplify == InitSimplify /\ [][NextSimplify]_vars

\* --------------------------------------------- generate_tactical_routes

\* gps_to_grid: int() of the scaled offset, clamped to the grid.
GpsToGrid(lat, lon, b, h, w) ==
    LET row == TruncDiv((b.north - lat) * h, b.north - b.south)
        col == TruncDiv((lon - b.west) * w, b.east - b.west)
    IN  << Max(0, Min(h - 1, row)), Max(0, Min(w - 1, col)) >>

\* _convert_waypoints: the first waypoint is set to start_gps, then the last
\* to end_gps; an empty list becomes [start_gps, end_gps].
ConvertWaypoints(waypoints_gps, s_gps, e_gps) ==
    LET given  == IF waypoints_gps = << >> THEN << s_gps, e_gps >> ELSE waypoints_gps
        first  == [ given EXCEPT ![1] = s_gps ]
    IN  [ first EXCEPT ![Len(first)] = e_gps ]

\* padding = max(3, grid_h // 5)
Padding(h) == Max(3, h \div 5)

\* "Clamp to valid grid range"
ClampToGrid(cell, h, w) ==
    << Max(0, Min(h - 1, cell[1])), Max(0, Min(w - 1, cell[2])) >>

\* (left_mid_row, left_mid_col) for the cells s and e.
LeftMid(h, w, s, e) ==
    LET min_row     == Min(s[1], e[1])
        max_row     == Max(s[1], e[1])
        min_col     == Min(s[2], e[2])
        max_col     == Max(s[2], e[2])
        padding     == Padding(h)
        going_down  == e[1] > s[1]
        going_right == e[2] > s[2]
    IN  ClampToGrid(
          IF going_down /\ going_right
          THEN << Min(h - 2, max_row + padding \div 2), Max(1, min_col - padding \div 2) >>
          ELSE IF going_down /\ ~going_right
          THEN << Min(h - 2, max_row + padding \div 2), Min(w - 2, max_col + padding \div 2) >>
          ELSE IF ~going_down /\ going_right
          THEN << Max(1, min_row - padding \div 2), Max(1, min_col - padding \div 2) >>
          ELSE << Max(1, min_row - padding \div 2), Min(w - 2, max_col + padding \div 2) >>,
          h, w)

\* (right_mid_row, right_mid_col) for the cells s and e.
RightMid(h, w, s, e) ==
    LET min_row     == Min(s[1], e[1])
        max_row     == Max(s[1], e[1])
        min_col     == Min(s[2], e[2])
        max_col     == Max(s[2], e[2])
        padding     == Padding(h)
        going_down  == e[1] > s[1]
        going_right == e[2] > s[2]
    IN  ClampToGrid(
          IF going_down /\ going_right
          THEN << Max(1, min_row - padding \div 2), Min(w - 2, max_col + padding \div 2) >>
          ELSE IF going_down /\ ~going_right
          THEN << Max(1, min_row - padding \div 2), Max(1, min_col - padding \div 2) >>
          ELSE IF ~going_down /\ going_right
          THEN << Min(h - 2, max_row + padding \div 2), Min(w - 2, max_col + padding \div 2) >>
          ELSE << Min(h - 2, max_row + padding \div 2), Max(1, min_col - padding \div 2) >>,
          h, w)

\* waypoints[:-1]
AllButLast(s) == SubSeq(s, 1, Len(s) - 1)

\* Route 1: the direct path.
DirectRoute(mask, h, w, b, s, e, s_gps, e_gps) ==
    LET result1 == FindPath(mask, h, w, TRUE, s, e, b)
    IN  [ route_id   |-> 1,
          waypoints  |-> ConvertWaypoints(result1.waypoints, s_gps, e_gps),
          path_clear |-> result1.path_clear ]

\* The two find_path results of a flank: start to anchor, anchor to end.
FlankLegs(mask, h, w, b, s, mid, e) ==
    << FindPath(mask, h, w, TRUE, s, mid, b), FindPath(mask, h, w, TRUE, mid, e, b) >>

\* A flank route that is clear as soon as one leg is.
FlankRouteEitherLeg(id, mask, h, w, b, s, mid, e, s_gps, e_gps) ==
    LET result_a == FindPath(mask, h, w, TRUE, s, mid, b)
        result_b == FindPath(mask, h, w, TRUE, mid, e, b)
    IN  [ route_id   |-> id,
          waypoints  |-> ConvertWaypoints(AllButLast(result_a.waypoints) \o result_b.waypoints,
                                          s_gps, e_gps),
          path_clear |-> result_a.path_clear \/ result_b.path_clear ]

\* Routes 2 and 3: two legs through the anchor `mid`.
FlankRoute(id, mask, h, w, b, s, mid, e, s_gps, e_gps) ==
    LET result_a == FindPath(mask, h, w, TRUE, s, mid, b)
        result_b == FindPath(mask, h, w, TRUE, mid, e, b)
    IN  [ route_id   |-> id,
          waypoints  |-> ConvertWaypoints(AllButLast(result_a.waypoints) \o result_b.waypoints,
                                          s_gps, e_gps),
          path_clear |-> result_a.path_clear /\ result_b.path_clear ]

\* The geographic positions a caller asks routes between.
GpsPoints(h, w) == (0 .. h * CellUnits) \X (0 .. w * CellUnits)

\* The masks with at most MaxRouteObstacles obstacle cells.
RouteMasks(h, w) ==
    { m \in [ Cells(h, w) -> {0, 1} ] :
        Cardinality({ c \in Cells(h, w) : m[c] = 1 }) <= MaxRouteObstacles }

InitRoutes ==
    /\ NoDetection
    /\ NoTerrain
    /\ NoPixel
    /\ NoConv
    /\ NoThreads
    /\ NoBacklog
    /\ NoSteps
    /\ grid_h \in 1 .. MaxDim
    /\ grid_w \in 1 .. MaxDim
    /\ grid_h * grid_w <= MaxCells
    /\ obstacle_mask \in RouteMasks(grid_h, grid_w)
    /\ allow_diagonal = TRUE
    /\ bounds = BoundsFor(grid_h, grid_w)
    /\ NoSearch
    /\ simplify_in = << >>
    /\ simplify_out = << >>
    /\ pc = "routes_call"
    /\ start_gps \in GpsPoints(grid_h, grid_w)
    /\ end_gps \in GpsPoints(grid_h, grid_w)
    /\ single_route \in BOOLEAN
    /\ left_mid = << >>
    /\ right_mid = << >>
    /\ legs = << >>
    /\ routes = << >>

\* generate_tactical_routes(..., single_route=True): the direct route alone.
GenerateSingleRoute ==
    /\ pc = "routes_call"
    /\ single_route
    /\ LET s == GpsToGrid(start_gps[1], start_gps[2], bounds, grid_h, grid_w)
           e == GpsToGrid(end_gps[1], end_gps[2], bounds, grid_h, grid_w)
       IN  /\ start_grid' = s
           /\ end_grid' = e
           /\ routes' = << DirectRoute(obstacle_mask, grid_h, grid_w, bounds, s, e,
                                       start_gps, end_gps) >>
    /\ pc' = "routes_done"
    /\ UNCHANGED << gridVars, snapVars, astarVars, path_grid, result, simplifyVars,
                    start_gps, end_gps, single_route, left_mid, right_mid, legs,
                    detectVars, terrainVars, laterVars >>

\* generate_tactical_routes(..., single_route=False): direct, left and right.
GenerateThreeRoutes ==
    /\ pc = "routes_call"
    /\ ~single_route
    /\ LET s == GpsToGrid(start_gps[1], start_gps[2], bounds, grid_h, grid_w)
           e == GpsToGrid(end_gps[1], end_gps[2], bounds, grid_h, grid_w)
           l == LeftMid(grid_h, grid_w, s, e)
           r == RightMid(grid_h, grid_w, s, e)
       IN  /\ start_grid' = s
           /\ end_grid' = e
           /\ left_mid' = l
           /\ right_mid' = r
           /\ legs' = FlankLegs(obstacle_mask, grid_h, grid_w, bounds, s, l, e) \o
                      FlankLegs(obstacle_mask, grid_h, grid_w, bounds, s, r, e)
           /\ routes' = << DirectRoute(obstacle_mask, grid_h, grid_w, bounds, s, e,
                                       start_gps, end_gps),
                           FlankRoute(2, obstacle_mask, grid_h, grid_w, bounds, s, l, e,
                                      start_gps, end_gps),
                           FlankRoute(3, obstacle_mask, grid_h, grid_w, bounds, s, r, e,
                                      start_gps, end_gps) >>
    /\ pc' = "routes_done"
    /\ UNCHANGED << gridVars, snapVars, astarVars, path_grid, result, simplifyVars,
                    start_gps, end_gps, single_route,
                    detectVars, terrainVars, laterVars >>

NextRoutes == GenerateSingleRoute \/ GenerateThreeRoutes

SpecRoutes == InitRoutes /\ [][NextRoutes]_vars

\* ------------------------- generate_tactical_routes: the flank anchors

InitAnchors ==
    /\ NoDetection
    /\ NoTerrain
    /\ NoPixel
    /\ NoConv
    /\ NoThreads
    /\ NoBacklog
    /\ NoSteps
    /\ grid_h \in 1 .. MaxAnchorDim
    /\ grid_w \in 1 .. MaxAnchorDim
    /\ obstacle_mask = [ c \in Cells(grid_h, grid_w) |-> 0 ]
    /\ allow_diagonal = TRUE
    /\ bounds = BoundsFor(grid_h, grid_w)
    /\ start_grid \in Cells(grid_h, grid_w)
    /\ end_grid \in Cells(grid_h, grid_w)
    /\ start = start_grid
    /\ end = end_grid
    /\ open_set = {}
    /\ came_from = << >>
    /\ g_score = << >>
    /\ closed_set = {}
    /\ counter = 0
    /\ path_grid = << >>
    /\ result = NoResult
    /\ simplify_in = << >>
    /\ simplify_out = << >>
    /\ NoRoutes
    /\ pc = "anchors_call"

\* "Left flank", "Right flank", "Clamp to valid grid range": the two anchors
\* for the cells start_grid and end_grid.
PlaceAnchors ==
    /\ pc = "anchors_call"
    /\ left_mid' = LeftMid(grid_h, grid_w, start_grid, end_grid)
    /\ right_mid' = RightMid(grid_h, grid_w, start_grid, end_grid)
    /\ pc' = "anchors_done"
    /\ UNCHANGED << gridVars, callVars, snapVars, astarVars, path_grid, result,
                    simplifyVars, start_gps, end_gps, single_route, legs, routes,
                    detectVars, terrainVars, laterVars >>

NextAnchors == PlaceAnchors

SpecAnchors == InitAnchors /\ [][NextAnchors]_vars

\* ------------- generate_tactical_routes on an obstacle-free grid, one row

\* gps_to_grid's row alone.
GpsRow(lat, b, h) == Max(0, Min(h - 1, TruncDiv((b.north - lat) * h, b.north - b.south)))

InitOpenRow ==
    /\ NoDetection
    /\ NoTerrain
    /\ NoPixel
    /\ NoConv
    /\ NoThreads
    /\ NoBacklog
    /\ NoSteps
    /\ grid_h \in 1 .. MaxDim
    /\ grid_w \in 1 .. MaxDim
    /\ grid_h * grid_w <= MaxCells
    /\ obstacle_mask = [ c \in Cells(grid_h, grid_w) |-> 0 ]
    /\ allow_diagonal = TRUE
    /\ bounds = [ north |-> grid_h * RowCellUnits, south |-> 0,
                  east |-> grid_w * RowCellUnits, west |-> 0 ]
    /\ NoSearch
    /\ simplify_in = << >>
    /\ simplify_out = << >>
    /\ pc = "routes_call"
    /\ start_gps \in (0 .. grid_h * RowCellUnits) \X (0 .. grid_w * RowCellUnits)
    /\ end_gps \in (0 .. grid_h * RowCellUnits) \X (0 .. grid_w * RowCellUnits)
    /\ GpsRow(start_gps[1], bounds, grid_h) = GpsRow(end_gps[1], bounds, grid_h)
    /\ single_route = FALSE
    /\ left_mid = << >>
    /\ right_mid = << >>
    /\ legs = << >>
    /\ routes = << >>

NextOpenRow == GenerateThreeRoutes

SpecOpenRow == InitOpenRow /\ [][NextOpenRow]_vars

\* ----------------- GeminiObstacleDetector (gemini_obstacle_detector.py)

\* The cells of a report wrapped into the grid instead of being dropped.
ReportedWrapped(cells, n) == { << c[1] % n, c[2] % n >> : c \in cells }

\* The reported cells kept: `if 0 <= row < grid_size and 0 <= col < grid_size`.
ReportedInGrid(cells, n) == { c \in cells : InGrid(c[1], c[2], n, n) }

\* confirmed_traversable after the two safeguards.
ConfirmedTraversable(buildings, traversable, n) ==
    LET building_cells    == ReportedInGrid(buildings, n)
        traversable_cells == ReportedInGrid(traversable, n)
        confirmed         == traversable_cells \ building_cells
        safeguard1        == IF confirmed = {} /\ traversable_cells # {}
                             THEN traversable_cells ELSE confirmed
    IN  IF safeguard1 = {} THEN Cells(n, n) \ building_cells ELSE safeguard1

\* obstacle_mask: ones, then 0 at the confirmed traversable cells.
CombinedMask(buildings, traversable, n) ==
    [ c \in Cells(n, n) |->
        IF c \in ConfirmedTraversable(buildings, traversable, n) THEN 0 ELSE 1 ]

\* A pass that marks the 4 neighbours only.
DilateOnceCardinal(mask, n) ==
    [ c \in Cells(n, n) |->
        IF \E d \in Cells(n, n) :
               mask[d] = 1 /\ Abs(d[1] - c[1]) + Abs(d[2] - c[2]) <= 1
        THEN 1 ELSE mask[c] ]

\* One pass of _apply_buffer: every obstacle cell marks itself and its 8
\* neighbours in the copy.
DilateOnce(mask, n) ==
    [ c \in Cells(n, n) |->
        IF \E d \in Cells(n, n) :
               mask[d] = 1 /\ Abs(d[1] - c[1]) <= 1 /\ Abs(d[2] - c[2]) <= 1
        THEN 1 ELSE mask[c] ]

\* _apply_buffer with buffer_pixels = k: a copy, dilated k times.
RECURSIVE ApplyBuffer(_, _, _)
ApplyBuffer(mask, n, k) ==
    IF k <= 0 THEN mask ELSE ApplyBuffer(DilateOnce(mask, n), n, k - 1)

\* What a report may name: the cells of the grid and two outside it (-1 is
\* also what a missing "row" or "col" becomes).
ReportableCells(n) == Cells(n, n) \cup { << -1, -1 >>, << 0, n >> }

\* The reports of at most MaxReported cells.
Reports(n) == { r \in SUBSET ReportableCells(n) : Cardinality(r) <= MaxReported }

\* The variables of find_path, _simplify_path, the routes and the cost
\* surface, at rest.
OnlyDetection ==
    /\ allow_diagonal = TRUE
    /\ bounds = BoundsFor(grid_h, grid_w)
    /\ NoSearch
    /\ simplify_in = << >>
    /\ simplify_out = << >>
    /\ NoRoutes
    /\ NoTerrain
    /\ NoPixel
    /\ NoConv
    /\ NoThreads
    /\ NoBacklog
    /\ NoSteps

InitDetect ==
    /\ grid_h \in 1 .. MaxGridSize
    /\ grid_w = grid_h
    /\ obstacle_mask = [ c \in Cells(grid_h, grid_w) |-> 1 ]
    /\ OnlyDetection
    /\ buildings_result \in Reports(grid_h)
    /\ traversable_result \in Reports(grid_h)
    /\ buffer_pixels \in { 0, MaxBuffer }
    /\ buffered_mask = << >>
    /\ pc = "combine_call"

\* _combine_detection_results(buildings_result, traversable_result).
CombineDetectionResults ==
    /\ pc = "combine_call"
    /\ obstacle_mask' = CombinedMask(buildings_result, traversable_result, grid_h)
    /\ buffered_mask' = ApplyBuffer(CombinedMask(buildings_result, traversable_result, grid_h),
                                    grid_h, buffer_pixels)
    /\ pc' = "combine_done"
    /\ UNCHANGED << grid_h, grid_w, allow_diagonal, bounds, callVars, snapVars, astarVars,
                    path_grid, result, simplifyVars, routeVars,
                    buildings_result, traversable_result, buffer_pixels, terrainVars, laterVars >>

NextDetect == CombineDetectionResults

SpecDetect == InitDetect /\ [][NextDetect]_vars

InitBuffer ==
    /\ grid_h \in 1 .. MaxDim
    /\ grid_w = grid_h
    /\ obstacle_mask \in [ Cells(grid_h, grid_w) -> {0, 1} ]
    /\ OnlyDetection
    /\ buildings_result = {}
    /\ traversable_result = {}
    /\ buffer_pixels \in 0 .. MaxBuffer
    /\ buffered_mask = << >>
    /\ pc = "buffer_call"

\* _apply_buffer(mask) on the mask held in obstacle_mask.
ApplyBufferToMask ==
    /\ pc = "buffer_call"
    /\ buffered_mask' = ApplyBuffer(obstacle_mask, grid_h, buffer_pixels)
    /\ pc' = "buffer_done"
    /\ UNCHANGED << gridVars, callVars, snapVars, astarVars, path_grid, result,
                    simplifyVars, routeVars,
                    buildings_result, traversable_result, buffer_pixels, terrainVars, laterVars >>

NextBuffer == ApplyBufferToMask

SpecBuffer == InitBuffer /\ [][NextBuffer]_vars

\* ---------------------------------------------------------------------
\* The cost surface (georoute/clients/terrain_data.py).
\*
\* Numbers.  An elevation is NaN or a whole number of metres.  A slope is
\* held as the square of (rise/run) * 2 * CellSize, which is an integer.
\* A speed is in units of 1/CostScale (km/h or m/s), a slope cost in units
\* of 1/CostScale s/m, a land-cover multiplier in tenths, and a cell of the
\* cost surface in units of 1/(10 * CostScale) s/m, or inf, or NaN.
\* ---------------------------------------------------------------------

\* An undefined elevation or slope.
NaN == [ nan |-> TRUE, v |-> 0 ]

\* A defined elevation or slope.
Num(x) == [ nan |-> FALSE, v |-> x ]

\* np.inf as a cost.
Inf == [ kind |-> "inf", v |-> 0 ]

\* NaN as a cost.
NotANumber == [ kind |-> "nan", v |-> 0 ]

\* A finite cost.
Finite(x) == [ kind |-> "num", v |-> x ]

\* The cell of `cell`'s row or column at index j along the axis.
Along(cell, axis, j) == IF axis = 1 THEN << j, cell[2] >> ELSE << cell[1], j >>

\* times * (a - b) in floating point: NaN when either is NaN.
Difference(a, b, times) == IF a.nan \/ b.nan THEN NaN ELSE Num(times * (a.v - b.v))

\* np.gradient(dem, cell_size) along one axis, times 2 * cell_size: central
\* differences inside, one-sided first differences at the two ends.
Gradient(d, shape, axis, cell) ==
    LET n == shape[axis]
        i == cell[axis]
    IN  IF i = 0
        THEN Difference(d[Along(cell, axis, 1)], d[Along(cell, axis, 0)], 2)
        ELSE IF i = n - 1
        THEN Difference(d[Along(cell, axis, n - 1)], d[Along(cell, axis, n - 2)], 2)
        ELSE Difference(d[Along(cell, axis, i + 1)], d[Along(cell, axis, i - 1)], 1)

\* np.sqrt(grad_x**2 + grad_y**2), as the square of its 2 * cell_size fold.
SlopeMagnitude(d, shape, cell) ==
    LET grad_y == Gradient(d, shape, 1, cell)
        grad_x == Gradient(d, shape, 2, cell)
    IN  IF grad_x.nan \/ grad_y.nan
        THEN NaN
        ELSE Num(grad_x.v * grad_x.v + grad_y.v * grad_y.v)

\* calculate_slope: the slope magnitude with NaN replaced by 0.
CalculateSlope(d, shape, cell) ==
    LET slope == SlopeMagnitude(d, shape, cell)
    IN  IF slope.nan THEN Num(0) ELSE slope

\* 6.0 * exp(-3.5 * abs(s + 0.05)) in units of 1/CostScale km/h, for the
\* slopes s = sqrt(n) / 4, n = 0 .. 72, that elevations in steps of half a
\* cell size give (entry n + 1).
ToblerTable ==
    << 50367, 20996, 14613, 11065, 8753, 7119, 5906, 4974, 4240, 3649, 3166,
       2766, 2431, 2148, 1907, 1700, 1521, 1366, 1230, 1111, 1006, 914, 831,
       758, 693, 634, 581, 534, 491, 453, 418, 386, 357, 331, 306, 284, 264,
       246, 229, 213, 199, 186, 174, 162, 152, 142, 133, 125, 117, 110, 104,
       97, 92, 86, 81, 77, 72, 68, 64, 61, 57, 54, 51, 49, 46, 43, 41, 39,
       37, 35, 33, 32, 30 >>

\* tobler_hiking_speed: the table value clipped to 0.5 .. 6.0 km/h.
ToblerHikingSpeed(slope) ==
    IF slope.nan
    THEN NotANumber
    ELSE LET half == CellSize \div 2
             speed == ToblerTable[slope.v \div (half * half) + 1]
         IN  Finite(Min(Max(speed, CostScale \div 2), 6 * CostScale))

\* tobler_cost: seconds per metre at the off-road speed, which is at least
\* 0.1 m/s.
ToblerCost(slope) ==
    LET speed == ToblerHikingSpeed(slope)
    IN  IF speed.kind = "nan"
        THEN NotANumber
        ELSE LET speed_kmh == (speed.v * OffRoadTenths) \div 10
                 speed_ms == Max((speed_kmh * 10) \div 36, CostScale \div 10)
             IN  Finite((CostScale * CostScale + speed_ms \div 2) \div speed_ms)

\* impassable_mask_fullres: the pixel's class has an infinite multiplier.
ImpassablePixel(lc, costs, p) ==
    lc[p] \in DOMAIN costs /\ costs[lc[p]].kind = "inf"

\* terrain_cost_fullres in tenths: the class's finite multiplier, 1.0 for an
\* impassable class and for a class the table does not list.
TerrainCostPixel(lc, costs, p) ==
    IF lc[p] \in DOMAIN costs /\ costs[lc[p]].kind = "num"
    THEN costs[lc[p]].v
    ELSE 10

\* block_y, block_z: max(1, landcover.shape // dem.shape).
BlockSize(land, elev) == Max(1, land \div elev)

\* The side of block_reduce's result: the raster is padded up to a whole
\* number of blocks.
ReducedDim(land, block) == (land + block - 1) \div block

\* The land-cover pixels block_reduce puts in block (i, j).
BlockPixels(lshape, block_y, block_z, i, j) ==
    { p \in Cells(lshape[1], lshape[2]) : p[1] \div block_y = i /\ p[2] \div block_z = j }

\* The block of the reduced raster that a cell of the cost surface takes
\* its value from: the reduced raster is cropped to dem.shape and, where it
\* is smaller, continued with its last row and column (np.pad, mode='edge').
ReducedCell(lshape, dshape, cell) ==
    LET block_y == BlockSize(lshape[1], dshape[1])
        block_z == BlockSize(lshape[2], dshape[2])
        rows == Min(ReducedDim(lshape[1], block_y), dshape[1])
        cols == Min(ReducedDim(lshape[2], block_z), dshape[2])
    IN  << Min(cell[1], rows - 1), Min(cell[2], cols - 1) >>

\* The greatest member of a non-empty set of numbers.
Greatest(S) == CHOOSE m \in S : \A x \in S : x <= m

\* A multiplier that is the class's own, whether or not the class is
\* impassable.
TerrainMultNoImpassable(lc, lshape, dshape, costs, cell) ==
    IF lshape = dshape
    THEN Finite(TerrainCostPixel(lc, costs, cell))
    ELSE LET at == ReducedCell(lshape, dshape, cell)
             block == BlockPixels(lshape, BlockSize(lshape[1], dshape[1]),
                                  BlockSize(lshape[2], dshape[2]), at[1], at[2])
         IN  Finite(Greatest({ TerrainCostPixel(lc, costs, p) : p \in block }))

\* terrain_mult: the multiplier of a cell of the cost surface.  With equal
\* shapes it is the pixel's own; otherwise it is the greatest of the block
\* (np.max; the zeros block_reduce pads with never exceed a multiplier),
\* and inf when any pixel of the block is impassable.
TerrainMult(lc, lshape, dshape, costs, cell) ==
    IF lshape = dshape
    THEN IF ImpassablePixel(lc, costs, cell)
         THEN Inf
         ELSE Finite(TerrainCostPixel(lc, costs, cell))
    ELSE LET at == ReducedCell(lshape, dshape, cell)
             block == BlockPixels(lshape, BlockSize(lshape[1], dshape[1]),
                                  BlockSize(lshape[2], dshape[2]), at[1], at[2])
         IN  IF \E p \in block : ImpassablePixel(lc, costs, p)
             THEN Inf
             ELSE Finite(Greatest({ TerrainCostPixel(lc, costs, p) : p \in block }))

\* slope_cost * terrain_mult in floating point.
Times(a, b) ==
    IF a.kind = "nan" \/ b.kind = "nan"
    THEN NotANumber
    ELSE IF a.kind = "inf" \/ b.kind = "inf"
    THEN IF (a.kind = "num" /\ a.v = 0) \/ (b.kind = "num" /\ b.v = 0)
         THEN NotANumber
         ELSE Inf
    ELSE Finite(a.v * b.v)

\* slope > 1.0 (false of a NaN slope).
Steep(slope) == ~slope.nan /\ slope.v > 4 * CellSize * CellSize

\* final_cost[cell].
FinalCost(d, dshape, lc, lshape, costs, cell) ==
    LET slope == CalculateSlope(d, dshape, cell)
        product == Times(ToblerCost(slope), TerrainMult(lc, lshape, dshape, costs, cell))
    IN  IF d[cell].nan
        THEN Inf
        ELSE IF Steep(slope)
        THEN Inf
        ELSE product

\* The land-cover class of a raster that could not be fetched ("bare/sparse").
Bare == 60

\* The land-cover classes the cost table lists (tree cover, water).
ListedClasses == { 10, 80 }

\* The cost tables _load_landcover_costs can load for them: each class has
\* the multiplier 2.0 or is impassable; bare ground is not listed.
CostTables == [ ListedClasses -> { Finite(20), Inf } ]

\* The elevations: NaN and steps of half a cell size.
RoughElevations ==
    { NaN, Num(CellSize \div 2), Num(CellSize), Num(3 * (CellSize \div 2)) }

\* The subsets of S with at most k members.
UpTo(S, k) == { T \in SUBSET S : Cardinality(T) <= k }

\* The rasters over `cells` that hold `flat` but at `most` cells, which hold
\* values of `others`.
Rasters(cells, flat, others, most) ==
    UNION { { [ c \in cells |-> IF c \in T THEN f[c] ELSE flat ] : f \in [ T -> others ] }
            : T \in UpTo(cells, most) }

\* The variables of the pathfinder and of the detector, at rest.
OnlyTerrain ==
    /\ grid_h = 1
    /\ grid_w = 1
    /\ obstacle_mask = [ c \in Cells(1, 1) |-> 0 ]
    /\ allow_diagonal = TRUE
    /\ bounds = BoundsFor(grid_h, grid_w)
    /\ NoSearch
    /\ simplify_in = << >>
    /\ simplify_out = << >>
    /\ NoRoutes
    /\ NoDetection
    /\ NoPixel
    /\ NoConv
    /\ NoThreads
    /\ NoBacklog
    /\ NoSteps

\* An elevation raster and a land-cover raster of the same shape.
InitTerrain ==
    /\ OnlyTerrain
    /\ dem_shape \in (2 .. MaxDemDim) \X (2 .. MaxDemDim)
    /\ landcover_shape = dem_shape
    /\ dem \in Rasters(Cells(dem_shape[1], dem_shape[2]), Num(0), RoughElevations, MaxRough)
    /\ landcover \in Rasters(Cells(landcover_shape[1], landcover_shape[2]), Bare,
                             ListedClasses, MaxSpecial)
    /\ landcover_costs \in CostTables
    /\ final_cost = << >>
    /\ pc = "terrain_call"

\* create_cost_surface(dem, landcover).
CreateCostSurface ==
    /\ pc = "terrain_call"
    /\ final_cost' = [ c \in Cells(dem_shape[1], dem_shape[2]) |->
                         FinalCost(dem, dem_shape, landcover, landcover_shape,
                                   landcover_costs, c) ]
    /\ pc' = "terrain_done"
    /\ UNCHANGED << gridVars, callVars, snapVars, astarVars, path_grid, result,
                    simplifyVars, routeVars, detectVars,
                    dem_shape, landcover_shape, dem, landcover, landcover_costs, laterVars >>

NextTerrain == CreateCostSurface

SpecTerrain == InitTerrain /\ [][NextTerrain]_vars

\* A flat elevation raster and a land-cover raster of any shape.
InitDownsample ==
    /\ OnlyTerrain
    /\ dem_shape \in (2 .. MaxDemDim) \X (2 .. MaxDemDim)
    /\ landcover_shape \in (1 .. MaxLandDim) \X (1 .. MaxLandDim)
    /\ dem = [ c \in Cells(dem_shape[1], dem_shape[2]) |-> Num(0) ]
    /\ landcover \in Rasters(Cells(landcover_shape[1], landcover_shape[2]), Bare,
                             ListedClasses, MaxSpecial)
    /\ landcover_costs \in CostTables
    /\ final_cost = << >>
    /\ pc = "terrain_call"

NextDownsample == CreateCostSurface

SpecDownsample == InitDownsample /\ [][NextDownsample]_vars

\* ---------------------------------------------------------------------
\* The pixel pathfinder (georoute/processing/pixel_pathfinder.py).
\*
\* Numbers.  find_path replaces inf by 1e10 and hands the grid to
\* skimage's MCP_Geometric, for which every finite positive cost is
\* passable; a step between neighbours a and b costs their distance times
\* (cost[a] + cost[b]) / 2.  A cost of the search is held as a pair
\* << sentinels, rest >>: twice the sum, in units of 1/CostScale, of the
\* 1e10 parts and of the other parts.  On the grids of the model the pair
\* order is the order of the doubles, the rest being far below 1e10.
\* ---------------------------------------------------------------------

\* cost_for_mcp[cell] as a pair: 1e10 for inf, the cost itself otherwise.
CostForMcp(grid, c) ==
    IF grid[c].kind = "inf" THEN << 1, 0 >> ELSE << 0, grid[c].v >>

\* cost_for_mcp[cell] >= 1e10.
AtSentinel(grid, c) == CostForMcp(grid, c)[1] >= 1

\* The first in-grid pixel below 1e10 on the square rings around `pixel`,
\* rings by growing radius, each ring by rows and then by columns; the
\* pixel itself when no ring below max_search holds one.
FindNearestPassable(grid, h, w, pixel) ==
    LET radius(c) == Max(Abs(c[1] - pixel[1]), Abs(c[2] - pixel[2]))
        found == { c \in Cells(h, w) :
                     /\ ~AtSentinel(grid, c)
                     /\ radius(c) >= 1
                     /\ radius(c) < MaxSearch }
        before(a, b) ==
            \/ radius(a) < radius(b)
            \/ /\ radius(a) = radius(b)
               /\ \/ a[1] < b[1]
                  \/ a[1] = b[1] /\ a[2] <= b[2]
    IN  IF found = {}
        THEN pixel
        ELSE CHOOSE c \in found : \A o \in found : before(c, o)

\* The start or goal find_path searches from: moved to the nearest
\* passable pixel when it lies on a sentinel.
AdjustedPixel(grid, h, w, pixel) ==
    IF AtSentinel(grid, pixel) THEN FindNearestPassable(grid, h, w, pixel) ELSE pixel

\* The neighbours MCP_Geometric connects a pixel to (fully_connected).
McpNeighbors(h, w, c, diag) ==
    { << c[1] + d[1], c[2] + d[2] >> : d \in SeqToSet(Directions(diag)) } \cap Cells(h, w)

\* Twice the geometric cost of the step between neighbours a and b.
McpStep(grid, a, b) ==
    LET distance == IF a[1] # b[1] /\ a[2] # b[2] THEN 14142 ELSE CostScale
    IN  << distance * (CostForMcp(grid, a)[1] + CostForMcp(grid, b)[1]),
           distance * (CostForMcp(grid, a)[2] + CostForMcp(grid, b)[2]) >>

\* The order of two costs.
McpLeq(x, y) == x[1] < y[1] \/ (x[1] = y[1] /\ x[2] <= y[2])

\* One round of relaxation of the cumulative costs, a set of
\* << cell, sentinels, rest >> with one member per reached cell.
McpRelax(dist, grid, h, w, diag) ==
    LET reached == { t[1] : t \in dist }
        offers(c) ==
            { << t[2], t[3] >> : t \in { u \in dist : u[1] = c } }
            \cup { << t[2] + McpStep(grid, t[1], c)[1], t[3] + McpStep(grid, t[1], c)[2] >>
                   : t \in { u \in dist : u[1] \in McpNeighbors(h, w, c, diag) } }
        least(c) == CHOOSE x \in offers(c) : \A y \in offers(c) : McpLeq(x, y)
    IN  { << c, least(c)[1], least(c)[2] >> :
            c \in { d \in Cells(h, w) :
                      d \in reached \/ McpNeighbors(h, w, d, diag) \cap reached # {} } }

RECURSIVE McpRelaxRounds(_, _, _, _, _, _)
McpRelaxRounds(dist, grid, h, w, diag, n) ==
    IF n = 0 THEN dist ELSE McpRelaxRounds(McpRelax(dist, grid, h, w, diag), grid, h, w, diag, n - 1)

\* mcp.find_costs(starts=[start]): the least cumulative cost of every pixel.
McpFindCosts(grid, h, w, diag, s) ==
    McpRelaxRounds({ << s, 0, 0 >> }, grid, h, w, diag, h * w)

\* The cumulative cost of a pixel.
McpCostOf(dist, c) ==
    LET t == CHOOSE u \in dist : u[1] = c IN << t[2], t[3] >>

\* The pixels a least-cost path can reach c from.
McpPredecessors(dist, grid, h, w, diag, c) ==
    { n \in McpNeighbors(h, w, c, diag) :
        /\ McpCostOf(dist, n)[1] + McpStep(grid, n, c)[1] = McpCostOf(dist, c)[1]
        /\ McpCostOf(dist, n)[2] + McpStep(grid, n, c)[2] = McpCostOf(dist, c)[2] }

\* mcp.traceback(c): the least-cost paths from the start to c (the library
\* returns one of them).
RECURSIVE McpTraceback(_, _, _, _, _, _, _)
McpTraceback(dist, grid, h, w, diag, s, c) ==
    IF c = s
    THEN { << s >> }
    ELSE UNION { { Append(path, c) : path \in McpTraceback(dist, grid, h, w, diag, s, n) }
                 : n \in McpPredecessors(dist, grid, h, w, diag, c) }

\* The paths PixelPathfinder.find_path can return; << >> is None.
PixelFindPath(grid, h, w, diag, s, g) ==
    IF ~InGrid(s[1], s[2], h, w) \/ ~InGrid(g[1], g[2], h, w)
    THEN { << >> }
    ELSE LET from == AdjustedPixel(grid, h, w, s)
             to == AdjustedPixel(grid, h, w, g)
         IN  McpTraceback(McpFindCosts(grid, h, w, diag, from), grid, h, w, diag, from, to)

\* The cost grids: every pixel costs 1.0 or is impassable.
CostGrids(h, w) == [ Cells(h, w) -> { Finite(1), Inf } ]

\* The pixels handed to find_path: the pixels of the grid and one outside.
PixelArguments(h, w) == Cells(h, w) \cup { << h, 0 >> }

\* The variables of everything but the pixel pathfinder, at rest.
OnlyPixel ==
    /\ obstacle_mask = [ c \in Cells(grid_h, grid_w) |-> 0 ]
    /\ bounds = BoundsFor(grid_h, grid_w)
    /\ NoSearch
    /\ simplify_in = << >>
    /\ simplify_out = << >>
    /\ NoRoutes
    /\ NoDetection
    /\ NoTerrain
    /\ NoConv
    /\ NoThreads
    /\ NoBacklog
    /\ NoSteps

InitPixel ==
    /\ grid_h \in 1 .. MaxDim
    /\ grid_w \in 1 .. MaxDim
    /\ grid_h * grid_w <= MaxPixelCells
    /\ allow_diagonal \in BOOLEAN
    /\ OnlyPixel
    /\ cost_grid \in CostGrids(grid_h, grid_w)
    /\ start_pixel \in PixelArguments(grid_h, grid_w)
    /\ goal_pixel \in PixelArguments(grid_h, grid_w)
    /\ pixel_path = << >>
    /\ tactical_valid = FALSE
    /\ pc = "pixel_call"

\* find_path(cost_grid, start_pixel, goal_pixel, allow_diagonal), and
\* find_tactical_path's path_valid: False when the path is None.
FindPixelPath ==
    /\ pc = "pixel_call"
    /\ \E path \in PixelFindPath(cost_grid, grid_h, grid_w, allow_diagonal,
                                 start_pixel, goal_pixel) :
           /\ pixel_path' = path
           /\ tactical_valid' = (path # << >>)
    /\ pc' = "pixel_done"
    /\ UNCHANGED << gridVars, callVars, snapVars, astarVars, path_grid, result,
                    simplifyVars, routeVars, detectVars, terrainVars,
                    cost_grid, start_pixel, goal_pixel,
                    convVars, threadVars, backlogVars, stepVars >>

NextPixel == FindPixelPath

SpecPixel == InitPixel /\ [][NextPixel]_vars

\* ---------------------------------------------------------------------
\* TerrainRouter._generate_single_route: invocations on worker threads
\* ---------------------------------------------------------------------

\* The variables of everything but the later sections, at rest.
NoEarlier ==
    /\ grid_h = 1
    /\ grid_w = 1
    /\ obstacle_mask = [ c \in Cells(1, 1) |-> 0 ]
    /\ allow_diagonal = TRUE
    /\ bounds = BoundsFor(grid_h, grid_w)
    /\ NoSearch
    /\ simplify_in = << >>
    /\ simplify_out = << >>
    /\ NoRoutes
    /\ NoDetection
    /\ NoTerrain
    /\ NoPixel

\* PixelPathfinder.__init__'s waypoint_interval_meters.
DefaultInterval == 5

\* The "waypoint_interval" of a route configuration: those of
\* generate_terrain_routes, and 0 for a configuration without one.
ConfigIntervals == { 0, 3, 5 }

\* The lengths in meters of the paths smoothed.
PathLengths == { MaxLength }

\* smooth_path's num_waypoints for a path of the given length, with the
\* pathfinder's interval as read.
NumWaypoints(total_length_meters, interval) ==
    Max(2, (total_length_meters \div interval) + 1)

Invocations == 1 .. Len(invocations)

\* One invocation takes a step that leaves its fields as in next.
InvocationStep(i, next) ==
    invocations' = [ invocations EXCEPT ![i] = next ]

InitThreads ==
    /\ NoEarlier
    /\ NoConv
    /\ NoBacklog
    /\ NoSteps
    /\ pc = "routes_on_threads"
    /\ waypoint_interval_meters = DefaultInterval
    /\ invocations \in
           [ 1 .. MaxInvocations ->
                 [ pc : { "save" }, waypoint_interval : ConfigIntervals,
                   total_length_meters : PathLengths,
                   original_interval : { 0 }, num_waypoints : { 0 } ] ]

ThreadsRest ==
    UNCHANGED << gridVars, callVars, pc, snapVars, astarVars, path_grid, result,
                 simplifyVars, routeVars, detectVars, terrainVars,
                 pixelVars, convVars, backlogVars, stepVars >>

\* original_interval = self.pathfinder.waypoint_interval_meters
SaveInterval(i) ==
    /\ invocations[i].pc = "save"
    /\ InvocationStep(i, [ invocations[i] EXCEPT
                              !.original_interval = waypoint_interval_meters,
                              !.pc = "set" ])
    /\ UNCHANGED waypoint_interval_meters
    /\ ThreadsRest

\* if config.get("waypoint_interval"): the pathfinder's interval is set.
SetInterval(i) ==
    /\ invocations[i].pc = "set"
    /\ waypoint_interval_meters' =
           IF invocations[i].waypoint_interval # 0
           THEN invocations[i].waypoint_interval
           ELSE waypoint_interval_meters
    /\ InvocationStep(i, [ invocations[i] EXCEPT !.pc = "find" ])
    /\ ThreadsRest

\* find_tactical_path: smooth_path reads the pathfinder's interval.
FindTacticalPath(i) ==
    /\ invocations[i].pc = "find"
    /\ InvocationStep(i, [ invocations[i] EXCEPT
                              !.num_waypoints =
                                  NumWaypoints(invocations[i].total_length_meters,
                                               waypoint_interval_meters),
                              !.pc = "restore" ])
    /\ UNCHANGED waypoint_interval_meters
    /\ ThreadsRest

\* finally: self.pathfinder.waypoint_interval_meters = original_interval
RestoreInterval(i) ==
    /\ invocations[i].pc = "restore"
    /\ waypoint_interval_meters' = invocations[i].original_interval
    /\ InvocationStep(i, [ invocations[i] EXCEPT !.pc = "done" ])
    /\ ThreadsRest

NextThreads ==
    \E i \in Invocations :
        \/ SaveInterval(i)
        \/ SetInterval(i)
        \/ FindTacticalPath(i)
        \/ RestoreInterval(i)

SpecThreads == InitThreads /\ [][NextThreads]_vars

\* ---------------------------------------------------------------------
\* Floating-point arithmetic of the coordinate conversions
\* ---------------------------------------------------------------------

\* A float is << m, e >>, the number m * 2^e: m is 0 (with e = 0) or has
\* exactly MantissaBits binary digits.  Every operation gives the exact
\* result rounded to the nearest float, ties to the even mantissa.

\* The exponents by which a result is moved to get MantissaBits digits.
ExponentRange == MantissaBits + 8

\* a / b rounded to the nearest integer, ties to the even one (a >= 0, b > 0).
RoundHalfEven(a, b) ==
    LET q == a \div b
        r == a % b
    IN  IF 2 * r < b THEN q
        ELSE IF 2 * r > b THEN q + 1
        ELSE IF q % 2 = 0 THEN q ELSE q + 1

\* The k for which (n / d) / 2^k has MantissaBits digits before the point
\* (n > 0, d > 0).
Shift(n, d) ==
    CHOOSE k \in -ExponentRange .. ExponentRange :
        LET up   == 2^(IF k < 0 THEN -k ELSE 0)
            down == 2^(IF k > 0 THEN k ELSE 0)
        IN  /\ 2^(MantissaBits - 1) * d * down <= n * up
            /\ n * up < 2^MantissaBits * d * down

\* The float nearest to (n / d) * 2^e (d > 0).
RoundTo(n, d, e) ==
    IF n = 0
    THEN << 0, 0 >>
    ELSE LET a == Abs(n)
             s == IF n < 0 THEN -1 ELSE 1
             k == Shift(a, d)
             m == IF k >= 0
                  THEN RoundHalfEven(a, d * 2^k)
                  ELSE RoundHalfEven(a * 2^(-k), d)
         IN  IF m = 2^MantissaBits
             THEN << s * 2^(MantissaBits - 1), e + k + 1 >>
             ELSE << s * m, e + k >>

\* float(i) of an integer.
FloatOfInt(i) == RoundTo(i, 1, 0)

\* i / j of two integers (j > 0).
TrueDivide(i, j) == RoundTo(i, j, 0)

FloatAdd(a, b) ==
    LET lo == Min(a[2], b[2])
    IN  RoundTo(a[1] * 2^(a[2] - lo) + b[1] * 2^(b[2] - lo), 1, lo)

FloatSub(a, b) == FloatAdd(a, << -b[1], b[2] >>)

FloatMul(a, b) == RoundTo(a[1] * b[1], 1, a[2] + b[2])

\* a / b (b not zero).
FloatDiv(a, b) ==
    RoundTo((IF b[1] < 0 THEN -1 ELSE 1) * a[1] * 2^(MantissaBits + 1), Abs(b[1]),
            a[2] - b[2] - (MantissaBits + 1))

\* a < b
FloatLess(a, b) ==
    LET lo == Min(a[2], b[2])
    IN  a[1] * 2^(a[2] - lo) < b[1] * 2^(b[2] - lo)

\* max(a, b) and min(a, b) of floats.
FloatMax(a, b) == IF FloatLess(a, b) THEN b ELSE a

FloatMin(a, b) == IF FloatLess(b, a) THEN b ELSE a

\* int(a): the digits after the point are dropped.
FloatInt(a) ==
    IF a[2] >= 0 THEN a[1] * 2^a[2] ELSE TruncDiv(a[1], 2^(-a[2]))

\* ---------------------------------------------------------------------
\* grid_to_gps and gps_to_grid in floating point
\* ---------------------------------------------------------------------

\* grid_to_gps of generate_tactical_routes, GridPathfinder._grid_to_gps and
\* the detector's grid_to_gps (there with grid_h = grid_w = grid_size).
grid_to_gps(row, col, b, h, w) ==
    LET north == FloatOfInt(b.north)
        south == FloatOfInt(b.south)
        east  == FloatOfInt(b.east)
        west  == FloatOfInt(b.west)
    IN  << FloatSub(north, FloatMul(TrueDivide(row, h), FloatSub(north, south))),
           FloatAdd(west, FloatMul(TrueDivide(col, w), FloatSub(east, west))) >>

\* int() of the scaled offsets of a position.
ScaledOffsets(lat, lon, b, h, w) ==
    LET north == FloatOfInt(b.north)
        south == FloatOfInt(b.south)
        east  == FloatOfInt(b.east)
        west  == FloatOfInt(b.west)
    IN  << FloatInt(FloatMul(FloatDiv(FloatSub(north, lat), FloatSub(north, south)),
                             FloatOfInt(h))),
           FloatInt(FloatMul(FloatDiv(FloatSub(lon, west), FloatSub(east, west)),
                             FloatOfInt(w))) >>

\* gps_to_grid without its clamp to the grid.
gps_to_grid_unclamped(lat, lon, b, h, w) == ScaledOffsets(lat, lon, b, h, w)

\* gps_to_grid of generate_tactical_routes.
gps_to_grid(lat, lon, b, h, w) ==
    ClampToGrid(ScaledOffsets(lat, lon, b, h, w), h, w)

\* The detector's gps_to_grid: the position is clamped to the bounds first.
DetectorGpsToGrid(lat, lon, b, grid_size) ==
    LET clamped_lat == FloatMax(FloatOfInt(b.south), FloatMin(FloatOfInt(b.north), lat))
        clamped_lon == FloatMax(FloatOfInt(b.west), FloatMin(FloatOfInt(b.east), lon))
    IN  ClampToGrid(ScaledOffsets(clamped_lat, clamped_lon, b, grid_size, grid_size),
                    grid_size, grid_size)

\* Bounds with north > south and east > west.
ConvBounds ==
    { [ north |-> s + n, south |-> s, east |-> o + e, west |-> o ] :
          s \in 0 .. MaxSouth, n \in 1 .. MaxSpan, o \in { 0 }, e \in 1 .. MaxSpan }

\* The latitudes or longitudes from one unit before lo to one after hi,
\* in steps of half a unit.
HalfSteps(lo, hi) == { RoundTo(i, 2, 0) : i \in 2 * (lo - 1) .. 2 * (hi + 1) }

\* The variables of everything but the conversions, at rest.
OnlyConv ==
    /\ obstacle_mask = [ c \in Cells(grid_h, grid_w) |-> 0 ]
    /\ allow_diagonal = TRUE
    /\ NoSearch
    /\ simplify_in = << >>
    /\ simplify_out = << >>
    /\ NoRoutes
    /\ NoDetection
    /\ NoTerrain
    /\ NoPixel
    /\ NoThreads
    /\ NoBacklog
    /\ NoSteps

\* A cell of a grid, to be converted to a position and back.
InitConv ==
    /\ grid_h \in 1 .. MaxDim
    /\ grid_w \in 1 .. MaxDim
    /\ bounds \in ConvBounds
    /\ OnlyConv
    /\ conv_cell \in Cells(grid_h, grid_w)
    /\ conv_gps = << >>
    /\ conv_back = << >>
    /\ pc = "conv_cell"

\* A position inside or outside the bounds, to be converted to a cell.
InitClamp ==
    /\ grid_h \in 1 .. MaxDim
    /\ grid_w \in 1 .. MaxDim
    /\ bounds \in ConvBounds
    /\ OnlyConv
    /\ conv_cell = << 0, 0 >>
    /\ conv_gps \in HalfSteps(bounds.south, bounds.north)
                        \X HalfSteps(bounds.west, bounds.east)
    /\ conv_back = << >>
    /\ pc = "conv_gps"

ConvRest ==
    UNCHANGED << gridVars, callVars, snapVars, astarVars, path_grid, result,
                 simplifyVars, routeVars, detectVars, terrainVars,
                 pixelVars, threadVars, backlogVars, stepVars >>

\* lat, lon = grid_to_gps(row, col)
GridToGpsCall ==
    /\ pc = "conv_cell"
    /\ conv_gps' = grid_to_gps(conv_cell[1], conv_cell[2], bounds, grid_h, grid_w)
    /\ pc' = "conv_gps"
    /\ UNCHANGED << conv_cell, conv_back >>
    /\ ConvRest

\* gps_to_grid(lat, lon), by generate_tactical_routes' function and by the
\* method of a detector whose grid_size is grid_h.
GpsToGridCall ==
    /\ pc = "conv_gps"
    /\ conv_back' =
           [ routes   |-> gps_to_grid(conv_gps[1], conv_gps[2], bounds, grid_h, grid_w),
             detector |-> DetectorGpsToGrid(conv_gps[1], conv_gps[2], bounds, grid_h) ]
    /\ pc' = "conv_done"
    /\ UNCHANGED << conv_cell, conv_gps >>
    /\ ConvRest

NextConv == GridToGpsCall \/ GpsToGridCall

SpecConv == InitConv /\ [][NextConv]_vars

NextClamp == GpsToGridCall

SpecClamp == InitClamp /\ [][NextClamp]_vars

\* ---------------------------------------------------------------------
\* BacklogStore
\* ---------------------------------------------------------------------

RequestIds == 1 .. MaxIds

\* The entries handed to add_entry: a request_id and the rest of the entry.
Entries == [ request_id : RequestIds, data : { "first", "second" } ]

\* The position of a request_id in the store, 0 when it is not a key.
PositionOf(s, id) ==
    IF \E i \in 1 .. Len(s) : s[i].request_id = id
    THEN CHOOSE i \in 1 .. Len(s) : s[i].request_id = id
    ELSE 0

\* self._store[entry.request_id] = entry : the value of an existing key is
\* replaced where it stands, a new key goes to the end.
SetItem(s, entry) ==
    LET i == PositionOf(s, entry.request_id)
    IN  IF i = 0 THEN Append(s, entry) ELSE [ s EXCEPT ![i] = entry ]

\* self._store.move_to_end(request_id), for a key of the store.
MoveToEnd(s, id) ==
    LET i == PositionOf(s, id)
    IN  Append(SubSeq(s, 1, i - 1) \o SubSeq(s, i + 1, Len(s)), s[i])

\* self._store.popitem(last=False), for a store that is not empty.
PopItem(s) == Tail(s)

RECURSIVE Trim(_, _)
\* while len(self._store) > self.max_entries: self._store.popitem(last=False)
Trim(s, most) == IF Len(s) > most THEN Trim(PopItem(s), most) ELSE s

\* add_entry without its move_to_end.
BacklogAddEntryInPlace(s, entry, most) == Trim(SetItem(s, entry), most)

\* add_entry by one caller at a time.
BacklogAddEntry(s, entry, most) ==
    Trim(MoveToEnd(SetItem(s, entry), entry.request_id), most)

InitBacklog ==
    /\ NoEarlier
    /\ NoConv
    /\ NoThreads
    /\ NoSteps
    /\ pc = "backlog"
    /\ max_entries \in 0 .. MaxEntries
    /\ store = << >>
    /\ adders = << >>
    /\ calls = << >>

BacklogRest ==
    UNCHANGED << gridVars, callVars, pc, snapVars, astarVars, path_grid, result,
                 simplifyVars, routeVars, detectVars, terrainVars,
                 pixelVars, convVars, threadVars, stepVars >>

\* add_entry(entry)
AddEntry ==
    /\ pc = "backlog"
    /\ Len(calls) < MaxCalls
    /\ \E entry \in Entries :
           /\ store' = BacklogAddEntry(store, entry, max_entries)
           /\ calls' = Append(calls, entry)
    /\ UNCHANGED << max_entries, adders >>
    /\ BacklogRest

\* clear()
Clear ==
    /\ pc = "backlog"
    /\ store' = << >>
    /\ calls' = << >>
    /\ UNCHANGED << max_entries, adders >>
    /\ BacklogRest

NextBacklog == AddEntry \/ Clear

SpecBacklog == InitBacklog /\ [][NextBacklog]_vars

\* ---------------------------------------------------------------------
\* BacklogStore.add_entry called by several threads
\* ---------------------------------------------------------------------

Adders == 1 .. Len(adders)

\* One add_entry call moves to the next statement.
AdderAt(i, next_pc) == adders' = [ adders EXCEPT ![i].pc = next_pc ]

InitBacklogThreads ==
    /\ NoEarlier
    /\ NoConv
    /\ NoThreads
    /\ NoSteps
    /\ pc = "backlog_threads"
    /\ max_entries \in 0 .. MaxEntries
    /\ store = << >>
    /\ adders \in [ 1 .. MaxAdders -> [ pc : { "set" }, entry : Entries ] ]
    /\ calls = << >>

\* self._store[entry.request_id] = entry
SetItemStep(i) ==
    /\ adders[i].pc = "set"
    /\ store' = SetItem(store, adders[i].entry)
    /\ AdderAt(i, "move")
    /\ UNCHANGED << max_entries, calls >>
    /\ BacklogRest

\* self._store.move_to_end(entry.request_id): KeyError when the key is gone.
MoveToEndStep(i) ==
    /\ adders[i].pc = "move"
    /\ IF PositionOf(store, adders[i].entry.request_id) = 0
       THEN /\ AdderAt(i, "raised")
            /\ UNCHANGED store
       ELSE /\ store' = MoveToEnd(store, adders[i].entry.request_id)
            /\ AdderAt(i, "test")
    /\ UNCHANGED << max_entries, calls >>
    /\ BacklogRest

\* while len(self._store) > self.max_entries
WhileTestStep(i) ==
    /\ adders[i].pc = "test"
    /\ AdderAt(i, IF Len(store) > max_entries THEN "pop" ELSE "done")
    /\ UNCHANGED << max_entries, store, calls >>
    /\ BacklogRest

\* self._store.popitem(last=False): KeyError when the store is empty.
PopItemStep(i) ==
    /\ adders[i].pc = "pop"
    /\ IF store = << >>
       THEN /\ AdderAt(i, "raised")
            /\ UNCHANGED store
       ELSE /\ store' = PopItem(store)
            /\ AdderAt(i, "test")
    /\ UNCHANGED << max_entries, calls >>
    /\ BacklogRest

NextBacklogThreads ==
    \E i \in Adders :
        \/ SetItemStep(i)
        \/ MoveToEndStep(i)
        \/ WhileTestStep(i)
        \/ PopItemStep(i)

SpecBacklogThreads == InitBacklogThreads /\ [][NextBacklogThreads]_vars

\* ---------------------------------------------------------------------
\* find_path statement by statement: the loops of _find_nearest_clear
\* and of _astar
\* ---------------------------------------------------------------------

\* A GridPathfinder that has not been called.
InitFair ==
    /\ NoEarlier
    /\ NoConv
    /\ NoThreads
    /\ NoBacklog
    /\ NoSteps
    /\ pc = "idle"

StepsRest ==
    UNCHANGED << simplifyVars, routeVars, detectVars, terrainVars,
                 pixelVars, convVars, threadVars, backlogVars >>

\* The corners of a grid.
Corners(h, w) == { 0, h - 1 } \X { 0, w - 1 }

\* The masks of the wide grid with at most MaxFairObstacles obstacles.
WideMasks ==
    { [ c \in Cells(WideShape[1], WideShape[2]) |-> IF c \in S THEN 1 ELSE 0 ] :
          S \in UpTo(Cells(WideShape[1], WideShape[2]), MaxFairObstacles) }

\* find_path(obstacle_mask, start, end, bounds) is called, on a grid of at
\* most MaxFairCells cells or on a wider grid with few obstacles.
CallFindPath ==
    /\ pc = "idle"
    /\ \/ \E h \in 1 .. MaxDim, w \in 1 .. MaxDim :
              /\ h * w <= MaxFairCells
              /\ grid_h' = h
              /\ grid_w' = w
              /\ obstacle_mask' \in [ Cells(h, w) -> {0, 1} ]
              /\ bounds' = BoundsFor(h, w)
              /\ start_grid' \in Positions(h, w)
              /\ end_grid' \in Positions(h, w)
       \/ /\ grid_h' = WideShape[1]
          /\ grid_w' = WideShape[2]
          /\ obstacle_mask' \in WideMasks
          /\ bounds' = BoundsFor(WideShape[1], WideShape[2])
          /\ start_grid' \in Corners(WideShape[1], WideShape[2])
          /\ end_grid' \in Corners(WideShape[1], WideShape[2])
    /\ allow_diagonal' \in BOOLEAN
    /\ start' = start_grid'
    /\ end' = end_grid'
    /\ pc' = "call"
    /\ UNCHANGED << astarVars, path_grid, result, stepVars >>
    /\ StepsRest

\* A position outside the grid: the fallback, at once.
RejectCall ==
    /\ pc = "call"
    /\ ~ValidPosition(start_grid, grid_h, grid_w) \/ ~ValidPosition(end_grid, grid_h, grid_w)
    /\ result' = FallbackPath(start_grid, end_grid, bounds, grid_h, grid_w)
    /\ pc' = "done"
    /\ UNCHANGED << gridVars, callVars, snapVars, astarVars, path_grid, stepVars >>
    /\ StepsRest

\* Both positions are in the grid: on to the snap of start.
AcceptCall ==
    /\ pc = "call"
    /\ ValidPosition(start_grid, grid_h, grid_w)
    /\ ValidPosition(end_grid, grid_h, grid_w)
    /\ pc' = "snap_start"
    /\ UNCHANGED << gridVars, callVars, snapVars, astarVars, path_grid, result, stepVars >>
    /\ StepsRest

\* `if obstacle_mask[pos] == 1:` and, when it is, _find_nearest_clear up
\* to its loop: queue = deque([pos]), bfs_visited = {pos}.
SnapTest(at, pos, loop, after) ==
    /\ pc = at
    /\ IF obstacle_mask[pos] = 1
       THEN /\ bfs_queue' = << pos >>
            /\ bfs_visited' = { pos }
            /\ pc' = loop
       ELSE /\ UNCHANGED << bfs_queue, bfs_visited >>
            /\ pc' = after
    /\ UNCHANGED << gridVars, callVars, snapVars, astarVars, path_grid, result,
                    astar_current, dir_index >>
    /\ StepsRest

\* One iteration of `while queue`, or the return of pos when the queue is
\* empty; `found` is the value _find_nearest_clear returns, when it does.
BfsIteration(at, pos, after, found) ==
    /\ pc = at
    /\ IF bfs_queue = << >>
       THEN /\ found = pos
            /\ pc' = after
            /\ bfs_queue' = << >>
            /\ bfs_visited' = {}
       ELSE LET cell == Head(bfs_queue)
            IN  IF obstacle_mask[cell] = 0
                THEN /\ found = cell
                     /\ pc' = after
                     /\ bfs_queue' = << >>
                     /\ bfs_visited' = {}
                ELSE LET more == BfsNeighbors(grid_h, grid_w, cell, bfs_visited, 1)
                     IN  /\ found = pos
                         /\ pc' = at
                         /\ bfs_queue' = Tail(bfs_queue) \o more
                         /\ bfs_visited' = bfs_visited \cup SeqToSet(more)
    /\ UNCHANGED << gridVars, callVars, astarVars, path_grid, result, astar_current, dir_index >>
    /\ StepsRest

SnapStartTest == SnapTest("snap_start", start, "snap_start_loop", "snap_end") /\ UNCHANGED snapVars

SnapStartIteration ==
    /\ BfsIteration("snap_start_loop", start, "snap_end", start')
    /\ UNCHANGED end

SnapEndTest == SnapTest("snap_end", end, "snap_end_loop", "astar_call") /\ UNCHANGED snapVars

SnapEndIteration ==
    /\ BfsIteration("snap_end_loop", end, "astar_call", end')
    /\ UNCHANGED start

\* _astar up to its loop.
AstarCall ==
    /\ pc = "astar_call"
    /\ LET st == AstarInit(start, end)
       IN  /\ open_set' = st.open_set
           /\ came_from' = st.came_from
           /\ g_score' = st.g_score
           /\ closed_set' = st.closed_set
           /\ counter' = st.counter
    /\ pc' = "astar"
    /\ UNCHANGED << gridVars, callVars, snapVars, path_grid, result, stepVars >>
    /\ StepsRest

\* heappop gives the end cell: the path is returned, find_path returns.
AstarReturnPath ==
    /\ pc = "astar"
    /\ open_set # {}
    /\ HeapPop(open_set).pos \notin closed_set
    /\ HeapPop(open_set).pos = end
    /\ open_set' = open_set \ { HeapPop(open_set) }
    /\ path_grid' = ReconstructPath(came_from, end)
    /\ result' = FoundPath(path_grid', bounds, grid_h, grid_w)
    /\ pc' = "done"
    /\ UNCHANGED << gridVars, callVars, snapVars, came_from, g_score, closed_set, counter,
                    stepVars >>
    /\ StepsRest

\* heappop gives a cell of the closed set: continue; or another cell than
\* the end: closed_set.add(current), on to its neighbours.
AstarPop ==
    /\ pc = "astar"
    /\ open_set # {}
    /\ HeapPop(open_set).pos # end \/ end \in closed_set
    /\ open_set' = open_set \ { HeapPop(open_set) }
    /\ IF HeapPop(open_set).pos \in closed_set
       THEN UNCHANGED << closed_set, astar_current, dir_index, pc >>
       ELSE /\ closed_set' = closed_set \cup { HeapPop(open_set).pos }
            /\ astar_current' = HeapPop(open_set).pos
            /\ dir_index' = 1
            /\ pc' = "neighbors"
    /\ UNCHANGED << gridVars, callVars, snapVars, came_from, g_score, counter,
                    path_grid, result, bfs_queue, bfs_visited >>
    /\ StepsRest

\* One pass of `for i, (dr, dc) in enumerate(self.directions)`.
NeighborPass ==
    /\ pc = "neighbors"
    /\ \E st \in { Relax(obstacle_mask, grid_h, grid_w, allow_diagonal, end,
                         SearchState, astar_current, dir_index) } :
           /\ open_set' = st.open_set
           /\ came_from' = st.came_from
           /\ g_score' = st.g_score
           /\ counter' = st.counter
    /\ IF dir_index = Len(Directions(allow_diagonal))
       THEN /\ pc' = "astar"
            /\ dir_index' = 0
            /\ astar_current' = << 0, 0 >>
       ELSE /\ pc' = "neighbors"
            /\ dir_index' = dir_index + 1
            /\ UNCHANGED astar_current
    /\ UNCHANGED << gridVars, callVars, snapVars, closed_set, path_grid, result,
                    bfs_queue, bfs_visited >>
    /\ StepsRest

\* The open set is empty: _astar returns None, find_path the fallback.
AstarReturnNone ==
    /\ pc = "astar"
    /\ open_set = {}
    /\ path_grid' = << >>
    /\ result' = FallbackPath(start_grid, end_grid, bounds, grid_h, grid_w)
    /\ pc' = "done"
    /\ UNCHANGED << gridVars, callVars, snapVars, astarVars, stepVars >>
    /\ StepsRest

NextFair ==
    \/ CallFindPath
    \/ RejectCall
    \/ AcceptCall
    \/ SnapStartTest
    \/ SnapStartIteration
    \/ SnapEndTest
    \/ SnapEndIteration
    \/ AstarCall
    \/ AstarReturnPath
    \/ AstarPop
    \/ NeighborPass
    \/ AstarReturnNone

\* find_path is one sequential call: while it has a next statement it
\* runs it.
SpecFair == InitFair /\ [][NextFair]_vars /\ WF_vars(NextFair)

\* =====================================================================
\* Reference definitions the claims are stated with (not part of the code)
\* =====================================================================

\* find_path has returned.
Done == pc = "done"

\* find_path has returned after running _astar (both positions were valid).
Searched ==
    /\ Done
    /\ ValidPosition(start_grid, grid_h, grid_w)
    /\ ValidPosition(end_grid, grid_h, grid_w)

\* _astar returned a path.
PathFound == Searched /\ path_grid # << >>

\* _astar returned None: the open set emptied before the end cell was popped.
OpenSetEmptied == Searched /\ path_grid = << >>

GridCells == Cells(grid_h, grid_w)

ClearCells == { c \in GridCells : obstacle_mask[c] = 0 }

Manhattan(p, q) == Abs(p[1] - q[1]) + Abs(p[2] - q[2])

\* q is one allowed move away from p.
Adjacent(p, q, diag) ==
    \E i \in 1 .. Len(Directions(diag)) :
        q = << p[1] + Directions(diag)[i][1], p[2] + Directions(diag)[i][2] >>

IsDiagonalStep(p, q) == p[1] # q[1] /\ p[2] # q[2]

\* A cost as << cardinal steps, diagonal steps >>.
AddStep(cost, p, q) ==
    IF IsDiagonalStep(p, q) THEN << cost[1], cost[2] + 1 >> ELSE << cost[1] + 1, cost[2] >>

\* x[1] + x[2] * sqrt(2) <= y[1] + y[2] * sqrt(2), exactly.
LeqSqrt2(x, y) ==
    LET da == x[1] - y[1]
        db == y[2] - x[2]
    IN  IF db >= 0 THEN da <= 0 \/ da * da <= 2 * db * db
        ELSE da < 0 /\ da * da >= 2 * db * db

\* The cost in the pathfinder's own units (1.0 and 1.414).
CodeCost(x) == CardinalCost * x[1] + DiagonalCost * x[2]

\* The order on costs: with a diagonal worth sqrt(2), or worth the code's 1.414.
CostLeq(x, y, bySqrt2) == IF bySqrt2 THEN LeqSqrt2(x, y) ELSE CodeCost(x) <= CodeCost(y)

LeastCost(S, bySqrt2) == CHOOSE x \in S : \A y \in S : CostLeq(x, y, bySqrt2)

\* Least costs are kept as a set of << cell, cost >>, one per reached cell.
ReachedCells(dist) == { t[1] : t \in dist }

CostOf(dist, c) == (CHOOSE t \in dist : t[1] = c)[2]

\* One Bellman-Ford round over the clear cells.
RelaxRound(dist, diag, bySqrt2) ==
    LET cand(c) == { t[2] : t \in { u \in dist : u[1] = c } } \cup
                   { AddStep(t[2], t[1], c) : t \in { u \in dist : Adjacent(u[1], c, diag) } }
    IN  { << c, LeastCost(cand(c), bySqrt2) >> : c \in { d \in ClearCells : cand(d) # {} } }

RECURSIVE RelaxRounds(_, _, _, _)
RelaxRounds(dist, diag, bySqrt2, n) ==
    IF n = 0 THEN dist ELSE RelaxRounds(RelaxRound(dist, diag, bySqrt2), diag, bySqrt2, n - 1)

\* The least cost from s to every cell reachable over clear cells by allowed moves.
LeastCosts(s, diag, bySqrt2) ==
    IF s \in ClearCells
    THEN RelaxRounds({ << s, << 0, 0 >> >> }, diag, bySqrt2, grid_h * grid_w)
    ELSE {}

\* An obstacle-free path joins s and e.
Connected(s, e) == e \in ReachedCells(LeastCosts(s, allow_diagonal, FALSE))

RECURSIVE PathCostFrom(_, _)
PathCostFrom(cells, i) ==
    IF i >= Len(cells) THEN << 0, 0 >>
    ELSE AddStep(PathCostFrom(cells, i + 1), cells[i], cells[i + 1])

\* The cost of a cell path as << cardinal steps, diagonal steps >>.
PathCost(cells) == PathCostFrom(cells, 1)

\* The waypoints of the straight line from cell s to cell e: point j of
\* NumPoints is s moved (j - 1) / (NumPoints - 1) of the way to e, truncated.
StraightLine(s, e) ==
    [ j \in 1 .. NumPoints |->
        GridToGps(FallbackCell(s, e, j - 1)[1], FallbackCell(s, e, j - 1)[2],
                  bounds, grid_h, grid_w) ]

\* =====================================================================
\* Claims
\* =====================================================================

\* Row r is all obstacle except column c.
RowWallWithGap(r, c) ==
    \A c2 \in 0 .. grid_w - 1 : obstacle_mask[<< r, c2 >>] = (IF c2 = c THEN 0 ELSE 1)

\* The path's first and last cell lie on opposite sides of row r.
PathCrossesRow(r) ==
    \/ path_grid[1][1] < r /\ r < path_grid[Len(path_grid)][1]
    \/ path_grid[Len(path_grid)][1] < r /\ r < path_grid[1][1]

\* C1 (as claimed): when find_path returns path_clear = True, no cell of the
\* path _astar found is an obstacle, and a path between the two sides of a row
\* that is all obstacle but one cell contains that cell.
C1_AsClaimed ==
    (Done /\ result.path_clear) =>
        /\ \A i \in 1 .. Len(path_grid) : obstacle_mask[path_grid[i]] # 1
        /\ \A r \in 0 .. grid_h - 1 : \A c \in 0 .. grid_w - 1 :
               (RowWallWithGap(r, c) /\ PathCrossesRow(r)) => << r, c >> \in SeqToSet(path_grid)

\* C1, where the grid has a clear cell: the statement holds.
ClearPathWhenSomeCellClear ==
    (Done /\ result.path_clear /\ ClearCells # {}) =>
        /\ \A i \in 1 .. Len(path_grid) : obstacle_mask[path_grid[i]] # 1
        /\ \A r \in 0 .. grid_h - 1 : \A c \in 0 .. grid_w - 1 :
               (RowWallWithGap(r, c) /\ PathCrossesRow(r)) => << r, c >> \in SeqToSet(path_grid)

\* C2 (as claimed): when no obstacle-free path joins the snapped start and end,
\* find_path returns path_clear = False and NumPoints >= 2 waypoints on the
\* straight line from the original start cell to the original end cell.
C2_AsClaimed ==
    (Searched /\ ~Connected(start, end)) =>
        /\ result.path_clear = FALSE
        /\ NumPoints >= 2
        /\ Len(result.waypoints) = NumPoints
        /\ result.waypoints = StraightLine(start_grid, end_grid)
        /\ result.waypoints[1] = GridToGps(start_grid[1], start_grid[2], bounds, grid_h, grid_w)
        /\ result.waypoints[NumPoints] = GridToGps(end_grid[1], end_grid[2], bounds, grid_h, grid_w)

\* The path _astar returns costs no more than any obstacle-free path from
\* start to end (cardinal step 1, diagonal step sqrt(2)).
PathCostMinimal ==
    PathFound =>
        LET least == LeastCosts(start, allow_diagonal, TRUE)
        IN  end \in ReachedCells(least) => LeqSqrt2(PathCost(path_grid), CostOf(least, end))

\* heuristic(n) <= c for a cost c in the pathfinder's units: floor and exactness
\* of the square root decide it.
HeuristicAtMost(n, e, c) ==
    LET k == HeuristicSq(n, e)
    IN  \/ Heuristic(n, e) < c
        \/ Heuristic(n, e) = c /\ Heuristic(n, e) * Heuristic(n, e) = k * CostScale * CostScale

\* The heuristic never exceeds the least cost to the end cell at the step
\* costs the pathfinder uses.
HeuristicAdmissible ==
    Searched =>
        LET toEnd == LeastCosts(end, allow_diagonal, FALSE)
        IN  \A t \in toEnd : HeuristicAtMost(t[1], end, CodeCost(t[2]))

\* C3 (as claimed): the path _astar returns has minimal cost, in 4- and
\* 8-connected mode, the Euclidean heuristic being admissible for the
\* pathfinder's step costs.
C3_AsClaimed == PathCostMinimal /\ HeuristicAdmissible

\* A snapped endpoint: on an obstacle in a grid with a clear cell, it is a clear
\* cell at least Manhattan distance (the one clear 4-neighbour if there is one
\* only); off an obstacle, it is the original.
SnappedAsClaimed(original, snapped) ==
    /\ (obstacle_mask[original] = 1 /\ ClearCells # {}) =>
           /\ snapped \in ClearCells
           /\ \A c \in ClearCells : Manhattan(original, snapped) <= Manhattan(original, c)
           /\ \A n \in ClearCells :
                  ({ c \in ClearCells : Manhattan(original, c) = 1 } = {n}) => snapped = n
    /\ obstacle_mask[original] = 0 => snapped = original

\* C5: find_path searches from (to) the nearest clear cell, by Manhattan
\* distance, of a start (end) on an obstacle, and from (to) the start (end)
\* itself otherwise.
C5_SnapToNearestClear ==
    (pc \in {"astar", "done"} /\ ValidPosition(start_grid, grid_h, grid_w)
                              /\ ValidPosition(end_grid, grid_h, grid_w)) =>
        /\ SnappedAsClaimed(start_grid, start)
        /\ SnappedAsClaimed(end_grid, end)
        /\ start \in DOMAIN g_score /\ g_score[start] = 0
        /\ PathFound => path_grid[1] = start /\ path_grid[Len(path_grid)] = end

\* C5's case: a start on an obstacle was moved two cells away and a path found.
C5_Witness ==
    /\ PathFound
    /\ obstacle_mask[start_grid] = 1
    /\ Manhattan(start_grid, start) = 2
    /\ obstacle_mask[end_grid] = 0
    /\ Len(path_grid) > 1

\* C6 (as claimed): with no clear cell in the grid, find_path keeps the blocked
\* start and end, the search fails and the fallback is returned, path_clear =
\* False, whatever the start and end.
C6_AsClaimed ==
    (Searched /\ ClearCells = {}) =>
        /\ start = start_grid
        /\ end = end_grid
        /\ path_grid = << >>
        /\ result.path_clear = FALSE
        /\ result.waypoints = StraightLine(start_grid, end_grid)

\* C7 (as claimed): when the open set empties before the end cell is reached,
\* the result has path_valid = False and the straight-line fallback path.
C7_AsClaimed ==
    OpenSetEmptied =>
        /\ result.path_valid = FALSE
        /\ result.waypoints = StraightLine(start_grid, end_grid)

\* What the code returns then: the fallback, flagged by path_clear alone.
FallbackFlaggedByPathClear ==
    OpenSetEmptied =>
        /\ result.path_valid = TRUE
        /\ result.path_clear = FALSE
        /\ result.waypoints = StraightLine(start_grid, end_grid)

\* C8: the entry _astar pops next is least in f, and least in insertion counter
\* among the entries of equal f: no two entries tie, so the run is a function
\* of the mask, the start and the end. Every entry's f is g + h of its cell at
\* the time of the push.
C8_PopOrderDeterministic ==
    (pc = "astar" /\ open_set # {}) =>
        /\ \A o \in open_set \ { HeapPop(open_set) } :
               \/ HeapPop(open_set).f_score < o.f_score
               \/ /\ HeapPop(open_set).f_score = o.f_score
                  /\ HeapPop(open_set).counter < o.counter
        /\ \A a \in open_set : \A b \in open_set : a.counter = b.counter => a = b
        /\ \A a \in open_set :
               /\ a.counter <= counter
               /\ a.pos \in DOMAIN g_score
               /\ a.f_score >= g_score[a.pos] + Heuristic(a.pos, end)
        /\ \A p \in DOMAIN g_score \ closed_set :
               \E a \in open_set : a.pos = p /\ a.f_score = g_score[p] + Heuristic(p, end)

\* C8's case: two entries of equal f wait in the heap, told apart by counter.
C8_Witness ==
    /\ pc = "astar"
    /\ \E a \in open_set : \E b \in open_set :
           /\ a.f_score = b.f_score
           /\ a.counter < b.counter
           /\ a.pos # b.pos
           /\ HeapPop(open_set) = a

\* C9 (as claimed): on an obstacle-free n x n grid, n >= 2, the 8-connected
\* path from (0,0) to (n-1,n-1) has n cells and accumulated cost
\* (n-1) * sqrt(2), to within one cost unit (0.0001).
C9_AsClaimed ==
    (PathFound /\ allow_diagonal /\ grid_h = grid_w /\ grid_h >= 2
               /\ ClearCells = GridCells
               /\ start_grid = << 0, 0 >> /\ end_grid = << grid_h - 1, grid_w - 1 >>) =>
        /\ Len(path_grid) = grid_h
        /\ \A i \in 1 .. Len(path_grid) : path_grid[i] = << i - 1, i - 1 >>
        /\ LET exact == Isqrt(2 * (grid_h - 1) * (grid_h - 1) * CostScale * CostScale)
           IN  g_score[end] \in { exact, exact + 1 }

\* What the code computes there: n cells and (n-1) * 1.414.
DiagonalPathAtCodeCost ==
    (PathFound /\ allow_diagonal /\ grid_h = grid_w /\ grid_h >= 2
               /\ ClearCells = GridCells
               /\ start_grid = << 0, 0 >> /\ end_grid = << grid_h - 1, grid_w - 1 >>) =>
        /\ Len(path_grid) = grid_h
        /\ \A i \in 1 .. Len(path_grid) : path_grid[i] = << i - 1, i - 1 >>
        /\ g_score[end] = (grid_h - 1) * DiagonalCost

\* C10: _simplify_path returns at most as many cells as it was given, and the
\* first and the last cell returned are the first and the last cell given.
C10_SimplifyKeepsEnds ==
    pc = "simplify_done" =>
        /\ Len(simplify_out) <= Len(simplify_in)
        /\ Len(simplify_out) >= 1
        /\ simplify_out[1] = simplify_in[1]
        /\ simplify_out[Len(simplify_out)] = simplify_in[Len(simplify_in)]

\* C10's case: a path whose direction changes, with the two ends, are more
\* than MaxWaypoints cells, cut down to MaxWaypoints by the resampling.
C10_Witness ==
    /\ pc = "simplify_done"
    /\ Len(simplify_in) > MaxWaypoints
    /\ Len(DirectionChanges(simplify_in, << simplify_in[1] >>, << >>, 2)) + 1 > MaxWaypoints
    /\ Len(simplify_out) = MaxWaypoints
    /\ simplify_in[Len(simplify_in)] # simplify_in[Len(simplify_in) - 1]

\* C4 (as claimed): every route generate_tactical_routes returns starts at
\* start_gps and ends at end_gps, a route of a single waypoint included.
C4_AsClaimed ==
    pc = "routes_done" =>
        \A i \in 1 .. Len(routes) :
            /\ Len(routes[i].waypoints) >= 1
            /\ routes[i].waypoints[1] = start_gps
            /\ routes[i].waypoints[Len(routes[i].waypoints)] = end_gps

\* C4, for the routes of two waypoints or more: the statement holds.
EndpointsPinnedOnLongerRoutes ==
    pc = "routes_done" =>
        \A i \in 1 .. Len(routes) :
            /\ Len(routes[i].waypoints) >= 1
            /\ routes[i].waypoints[Len(routes[i].waypoints)] = end_gps
            /\ Len(routes[i].waypoints) >= 2 => routes[i].waypoints[1] = start_gps

\* The movement direction of the step into cell i of a path (i >= 2).
StepInto(path, i) == << path[i][1] - path[i - 1][1], path[i][2] - path[i - 1][2] >>

\* The indices of a path of two cells or more that the statement keeps: the
\* first, those where the direction out differs from the direction in, the last.
KeptIndices(path) ==
    { 1, Len(path) } \cup
    { i \in 2 .. Len(path) - 1 : StepInto(path, i + 1) # StepInto(path, i) }

\* The cells of a path at a set of indices, in path order.
RECURSIVE CellsAt(_, _, _)
CellsAt(path, keep, i) ==
    IF i > Len(path) THEN << >>
    ELSE (IF i \in keep THEN << path[i] >> ELSE << >>) \o CellsAt(path, keep, i + 1)

\* Evenly by index: cell floor(j * len / max) for j = 0 .. max - 2, then the last.
EvenlyByIndex(cells, max) ==
    [ j \in 1 .. max |->
        IF j = max THEN cells[Len(cells)] ELSE cells[((j - 1) * Len(cells)) \div max + 1] ]

\* What the statement says _simplify_path returns.
SimplifiedAsStated(path) ==
    LET kept == CellsAt(path, KeptIndices(path), 1)
    IN  IF Len(kept) > MaxWaypoints THEN EvenlyByIndex(kept, MaxWaypoints) ELSE kept

\* C11 (as claimed): for every path, _simplify_path returns the first cell,
\* the cells where the direction changes and the last cell, resampled to
\* MaxWaypoints cells only if they are more than MaxWaypoints.
C11_AsClaimed ==
    (pc = "simplify_done" /\ Len(simplify_in) >= 2) =>
        simplify_out = SimplifiedAsStated(simplify_in)

\* C11, for the paths of more than MaxWaypoints distinct cells: the statement holds.
SimplifiedAsStatedOnLongPaths ==
    (pc = "simplify_done" /\ Len(simplify_in) > MaxWaypoints
                          /\ Cardinality(SeqToSet(simplify_in)) = Len(simplify_in)) =>
        simplify_out = SimplifiedAsStated(simplify_in)

\* What the code does with a path of at most MaxWaypoints cells: nothing.
ShortPathReturnedWhole ==
    (pc = "simplify_done" /\ Len(simplify_in) <= MaxWaypoints) => simplify_out = simplify_in

\* generate_tactical_routes has returned the three routes.
ThreeRoutesDone == pc = "routes_done" /\ ~single_route

\* C12: a flank route's path_clear is true exactly when both of its legs
\* returned path_clear = True.
C12_FlankClearIffBothLegs ==
    ThreeRoutesDone =>
        /\ Len(routes) = 3 /\ Len(legs) = 4
        /\ routes[2].path_clear <=> (legs[1].path_clear /\ legs[2].path_clear)
        /\ routes[3].path_clear <=> (legs[3].path_clear /\ legs[4].path_clear)

\* C12's case: one leg of the left flank is clear, the other is the fallback.
C12_Witness ==
    /\ ThreeRoutesDone
    /\ legs[1].path_clear
    /\ ~legs[2].path_clear
    /\ ~routes[2].path_clear

\* C13 (as claimed): the two flank anchors are valid grid indices and lie at
\* least padding = max(3, grid_h / 5) cells apart in row or in column.
C13_AsClaimed ==
    pc = "anchors_done" =>
        /\ InGrid(left_mid[1], left_mid[2], grid_h, grid_w)
        /\ InGrid(right_mid[1], right_mid[2], grid_h, grid_w)
        /\ \/ Abs(left_mid[1] - right_mid[1]) >= Padding(grid_h)
           \/ Abs(left_mid[2] - right_mid[2]) >= Padding(grid_h)

\* C13, the indices alone: both anchors are cells of the grid.
AnchorsInGrid ==
    pc = "anchors_done" =>
        /\ InGrid(left_mid[1], left_mid[2], grid_h, grid_w)
        /\ InGrid(right_mid[1], right_mid[2], grid_h, grid_w)

\* What the code gives where the grid leaves room (both sides at least
\* 2 * padding + 1): each anchor is padding // 2 outside the box of start and
\* end, so the anchors are 2 * (padding // 2) plus the box's extent apart.
AnchorsApartByBoxAndHalfPaddings ==
    (pc = "anchors_done" /\ grid_h > 2 * Padding(grid_h) /\ grid_w > 2 * Padding(grid_h)) =>
        LET half == Padding(grid_h) \div 2
        IN  /\ Abs(left_mid[1] - right_mid[1]) <= Abs(start_grid[1] - end_grid[1]) + 2 * half
            /\ Abs(left_mid[2] - right_mid[2]) <= Abs(start_grid[2] - end_grid[2]) + 2 * half

\* The ordered concatenation of two legs, the duplicated junction removed: the
\* second leg's first waypoint is left out when it repeats the first leg's last.
JoinedLegs(a, b) ==
    IF a # << >> /\ b # << >> /\ a[Len(a)] = b[1] THEN a \o Tail(b) ELSE a \o b

\* A flank route is its two legs joined, its two ends set to the requested ones.
FlankIsJoinedLegs(route, leg_a, leg_b) ==
    route.waypoints =
        ConvertWaypoints(JoinedLegs(leg_a.waypoints, leg_b.waypoints), start_gps, end_gps)

\* The two legs meet: leg one ends on the waypoint leg two starts from.
LegsMeet(leg_a, leg_b) ==
    leg_a.waypoints[Len(leg_a.waypoints)] = leg_b.waypoints[1]

\* C14 (as claimed): a flank route is the waypoints of its first leg followed
\* by those of its second leg, the junction waypoint taken once.
C14_AsClaimed ==
    ThreeRoutesDone =>
        /\ FlankIsJoinedLegs(routes[2], legs[1], legs[2])
        /\ FlankIsJoinedLegs(routes[3], legs[3], legs[4])

\* C14, where the legs meet (as two paths found by _astar do): the statement holds.
FlankJoinedWhereLegsMeet ==
    ThreeRoutesDone =>
        /\ LegsMeet(legs[1], legs[2]) => FlankIsJoinedLegs(routes[2], legs[1], legs[2])
        /\ LegsMeet(legs[3], legs[4]) => FlankIsJoinedLegs(routes[3], legs[3], legs[4])
        /\ (legs[1].path_clear /\ legs[2].path_clear) => LegsMeet(legs[1], legs[2])
        /\ (legs[3].path_clear /\ legs[4].path_clear) => LegsMeet(legs[3], legs[4])

\* Lengths are in hundredths of a geographic unit.
LengthScale == 100

\* (q - p) squared, in geographic units.
SegmentSq(p, q) == (p[1] - q[1]) * (p[1] - q[1]) + (p[2] - q[2]) * (p[2] - q[2])

\* floor(LengthScale * |pq|), and 1 more where the length is not a whole number.
SegmentLower(p, q) == Isqrt(SegmentSq(p, q) * LengthScale * LengthScale)

SegmentUpper(p, q) ==
    IF SegmentLower(p, q) * SegmentLower(p, q) = SegmentSq(p, q) * LengthScale * LengthScale
    THEN SegmentLower(p, q) ELSE SegmentLower(p, q) + 1

\* Bounds of the length of the polyline through a route's waypoints: the
\* route's distance (its last distance_from_start_m), taken on the plane.
RECURSIVE LengthLower(_, _)
LengthLower(wps, i) ==
    IF i >= Len(wps) THEN 0 ELSE SegmentLower(wps[i], wps[i + 1]) + LengthLower(wps, i + 1)

RECURSIVE LengthUpper(_, _)
LengthUpper(wps, i) ==
    IF i >= Len(wps) THEN 0 ELSE SegmentUpper(wps[i], wps[i + 1]) + LengthUpper(wps, i + 1)

\* Route a is longer than route b, whatever the rounding.
SurelyLonger(a, b) == LengthLower(a.waypoints, 1) > LengthUpper(b.waypoints, 1)

\* The obstacle-free grid, start and end in one row, three routes asked for.
OpenRowDone ==
    /\ ThreeRoutesDone
    /\ \A c \in Cells(grid_h, grid_w) : obstacle_mask[c] = 0
    /\ start_grid[1] = end_grid[1]

\* C15 (as claimed): on an obstacle-free grid with start and end in the same
\* row, three routes are produced and the direct route is not longer than
\* either flank route.
C15_AsClaimed ==
    OpenRowDone =>
        /\ Len(routes) = 3
        /\ ~SurelyLonger(routes[1], routes[2])
        /\ ~SurelyLonger(routes[1], routes[3])

\* C15, in what it says of the number of routes and of their waypoint counts.
ThreeRoutesDirectFewestWaypoints ==
    OpenRowDone =>
        /\ Len(routes) = 3
        /\ routes[1].route_id = 1 /\ routes[2].route_id = 2 /\ routes[3].route_id = 3
        /\ Len(routes[1].waypoints) <= Len(routes[2].waypoints)
        /\ Len(routes[1].waypoints) <= Len(routes[3].waypoints)

\* C15, where start_gps and end_gps are the north-west corners of their cells
\* (the points find_path's waypoints are): the direct route is not longer.
DirectNotLongerFromCellCorners ==
    (OpenRowDone /\ start_gps = GridToGps(start_grid[1], start_grid[2], bounds, grid_h, grid_w)
                 /\ end_gps = GridToGps(end_grid[1], end_grid[2], bounds, grid_h, grid_w)) =>
        /\ ~SurelyLonger(routes[1], routes[2])
        /\ ~SurelyLonger(routes[1], routes[3])

\* The in-grid cells reported traversable and not reported as building.
TraversableNotBuilding ==
    { c \in GridCells : c \in traversable_result /\ c \notin buildings_result }

\* C16: when some in-grid cell is reported traversable and not as building,
\* obstacle_mask is 0 exactly at those cells and 1 everywhere else; reported
\* cells outside the grid change nothing.
C16_MaskFromReports ==
    (pc = "combine_done" /\ TraversableNotBuilding # {}) =>
        /\ DOMAIN obstacle_mask = GridCells
        /\ \A c \in GridCells :
               obstacle_mask[c] = (IF c \in TraversableNotBuilding THEN 0 ELSE 1)
        /\ obstacle_mask = CombinedMask(buildings_result \cap GridCells,
                                        traversable_result \cap GridCells, grid_h)

\* C16's case: a traversable cell kept, one dropped as a building, and a
\* traversable cell reported outside the grid.
C16_Witness ==
    /\ pc = "combine_done"
    /\ TraversableNotBuilding # {}
    /\ traversable_result \cap buildings_result \cap GridCells # {}
    /\ traversable_result \ GridCells # {}
    /\ \E c \in GridCells : obstacle_mask[c] = 0
    /\ \E c \in GridCells : obstacle_mask[c] = 1

\* C17 (as claimed): when no cell is reported traversable and not as building,
\* every cell not reported as building is traversable (0) and every cell
\* reported as building is an obstacle (1).
C17_AsClaimed ==
    (pc = "combine_done" /\ TraversableNotBuilding = {}) =>
        \A c \in GridCells : obstacle_mask[c] = (IF c \in buildings_result THEN 1 ELSE 0)

\* C17, where no in-grid cell is reported traversable at all: the statement holds.
NonBuildingsClearWhenNothingTraversable ==
    (pc = "combine_done" /\ traversable_result \cap GridCells = {}) =>
        \A c \in GridCells : obstacle_mask[c] = (IF c \in buildings_result THEN 1 ELSE 0)

\* What the code does where every traversable cell is also a building: the
\* building report is ignored, those cells are clear and all others obstacles.
BuildingsIgnoredWhenAllOverlap ==
    (pc = "combine_done" /\ TraversableNotBuilding = {}
                         /\ traversable_result \cap GridCells # {}) =>
        \A c \in GridCells : obstacle_mask[c] = (IF c \in traversable_result THEN 0 ELSE 1)

\* The Chebyshev distance of two cells.
Chebyshev(p, q) == Max(Abs(p[1] - q[1]), Abs(p[2] - q[2]))

\* The returned mask has an obstacle exactly where an obstacle of the input
\* lies within buffer_pixels cells (Chebyshev); with buffer_pixels = 0 it
\* equals the input.
BufferedWithinChebyshev ==
    pc = "buffer_done" =>
        /\ DOMAIN buffered_mask = GridCells
        /\ \A c \in GridCells :
               buffered_mask[c] = 1 <=>
                   \E d \in GridCells : obstacle_mask[d] = 1 /\ Chebyshev(c, d) <= buffer_pixels
        /\ \A c \in GridCells : buffered_mask[c] \in {0, 1}
        /\ buffer_pixels = 0 => buffered_mask = obstacle_mask

\* C18: the mask _apply_buffer returns has an obstacle exactly where an
\* obstacle of the input lies within buffer_pixels cells (Chebyshev); with
\* buffer_pixels = 0 it equals the input; the input is left as it was.
C18_BufferIsChebyshevDilation ==
    /\ []BufferedWithinChebyshev
    /\ [][pc = "buffer_call" => obstacle_mask' = obstacle_mask]_vars

\* C18's case: two passes reach a cell that is diagonally two away from every
\* obstacle of the input, which no single pass and no 4-neighbour pass reaches.
C18_Witness ==
    /\ pc = "buffer_done"
    /\ buffer_pixels = 2
    /\ \E c \in GridCells :
           /\ buffered_mask[c] = 1
           /\ \A d \in GridCells : obstacle_mask[d] = 1 =>
                  (Chebyshev(c, d) >= 2 /\ Abs(c[1] - d[1]) + Abs(c[2] - d[2]) >= 4)
    /\ \E d \in GridCells : obstacle_mask[d] = 1

\* ------------------------------------------------------------------ C19

\* create_cost_surface has returned.
TerrainDone == pc = "terrain_done"

\* The multiplier the cost table gives the class of a pixel: 1.0 for a class
\* it does not list.
MultiplierOf(p) ==
    IF landcover[p] \in DOMAIN landcover_costs
    THEN landcover_costs[landcover[p]]
    ELSE Finite(10)

\* The cell's slope exceeds 1.0.
SlopeExceedsOne(c) == Steep(CalculateSlope(dem, dem_shape, c))

\* The cell must be impassable: impassable class, steep slope or undefined
\* elevation.
ForcedImpassable(c) ==
    \/ MultiplierOf(c) = Inf
    \/ SlopeExceedsOne(c)
    \/ dem[c].nan

\* C19: with rasters of one shape, a cell of the cost surface is inf when
\* its land-cover class is impassable, its slope exceeds 1.0 or its
\* elevation is NaN; every other cell holds the finite non-negative product
\* of its slope cost and its class's multiplier; no cell is negative or NaN.
C19_CostSurfaceCells ==
    (TerrainDone /\ landcover_shape = dem_shape) =>
        \A c \in Cells(dem_shape[1], dem_shape[2]) :
            /\ final_cost[c].kind # "nan"
            /\ ForcedImpassable(c) => final_cost[c] = Inf
            /\ ~ForcedImpassable(c) =>
                   /\ final_cost[c].kind = "num"
                   /\ final_cost[c].v >= 0
                   /\ final_cost[c].v =
                          ToblerCost(CalculateSlope(dem, dem_shape, c)).v * MultiplierOf(c).v

\* C19's case: one surface holds a cell of an impassable class on a gentle
\* slope, a cell that is too steep, and a passable cell whose slope is
\* exactly 1.0 and whose cost is 10 s/m.
C19_Witness ==
    /\ TerrainDone
    /\ \E c \in Cells(dem_shape[1], dem_shape[2]) :
           /\ MultiplierOf(c) = Inf
           /\ ~SlopeExceedsOne(c)
           /\ ~dem[c].nan
           /\ final_cost[c] = Inf
    /\ \E c \in Cells(dem_shape[1], dem_shape[2]) :
           /\ MultiplierOf(c) # Inf
           /\ SlopeExceedsOne(c)
           /\ final_cost[c] = Inf
    /\ \E c \in Cells(dem_shape[1], dem_shape[2]) :
           /\ CalculateSlope(dem, dem_shape, c).v = 4 * CellSize * CellSize
           /\ final_cost[c] = Finite(10 * CostScale * 10)

\* C19, for rasters of any two shapes: no cell of the cost surface is
\* negative or NaN, and every cell is inf or finite.
NoCellNegativeOrNaN ==
    TerrainDone =>
        \A c \in Cells(dem_shape[1], dem_shape[2]) :
            \/ final_cost[c] = Inf
            \/ final_cost[c].kind = "num" /\ final_cost[c].v >= 0

\* C19's case next to an undefined elevation: the neighbours of a NaN cell
\* have a NaN gradient, a slope of 0 and a finite cost.
NaNNeighbourFinite ==
    /\ TerrainDone
    /\ \E c \in Cells(dem_shape[1], dem_shape[2]) : dem[c].nan /\ final_cost[c] = Inf
    /\ \E c \in Cells(dem_shape[1], dem_shape[2]) :
           /\ SlopeMagnitude(dem, dem_shape, c).nan
           /\ ~dem[c].nan
           /\ final_cost[c].kind = "num"

\* ------------------------------------------------------------------ C20

\* The land-cover raster is finer than the elevation raster.
LandcoverFiner ==
    /\ landcover_shape[1] >= dem_shape[1]
    /\ landcover_shape[2] >= dem_shape[2]
    /\ landcover_shape # dem_shape

\* The cell of the block a land-cover pixel lies in.
BlockOf(p) ==
    << p[1] \div BlockSize(landcover_shape[1], dem_shape[1]),
       p[2] \div BlockSize(landcover_shape[2], dem_shape[2]) >>

\* Every impassable land-cover pixel lies in a block whose cell of the cost
\* surface is impassable.
NoImpassablePixelLost ==
    \A p \in Cells(landcover_shape[1], landcover_shape[2]) :
        MultiplierOf(p) = Inf =>
            /\ BlockOf(p) \in Cells(dem_shape[1], dem_shape[2])
            /\ final_cost[BlockOf(p)] = Inf

\* C20 (as claimed): for every land-cover shape finer than the elevation
\* shape, no impassable land-cover pixel is lost in the downsampling.
C20_AsClaimed ==
    (TerrainDone /\ LandcoverFiner) => NoImpassablePixelLost

\* C20, where it holds: when each side of the land-cover raster is a whole
\* multiple of the elevation raster's, no impassable pixel is lost.
NoImpassablePixelLostWhenSidesDivide ==
    ( /\ TerrainDone
      /\ LandcoverFiner
      /\ landcover_shape[1] % dem_shape[1] = 0
      /\ landcover_shape[2] % dem_shape[2] = 0 ) => NoImpassablePixelLost

\* C20, what is lost: an impassable pixel with no impassable cell lies in a
\* row or column past the last whole block.
LostPixelsPastLastBlock ==
    (TerrainDone /\ LandcoverFiner) =>
        \A p \in Cells(landcover_shape[1], landcover_shape[2]) :
            (MultiplierOf(p) = Inf /\ ~(\E c \in Cells(dem_shape[1], dem_shape[2]) : final_cost[c] = Inf)) =>
                \/ p[1] >= BlockSize(landcover_shape[1], dem_shape[1]) * dem_shape[1]
                \/ p[2] >= BlockSize(landcover_shape[2], dem_shape[2]) * dem_shape[2]

\* ------------------------------------------------------------------ C21

\* PixelPathfinder.find_path has returned.
PixelDone == pc = "pixel_done"

\* The pixels of cost_grid.
Pixels == Cells(grid_h, grid_w)

\* The passable pixels of cost_grid.
PassablePixels == { c \in Pixels : cost_grid[c] # Inf }

\* The passable pixels one step of the search away from a set of pixels.
PassableStep(S) ==
    S \cup { c \in PassablePixels :
               \E p \in S : c \in McpNeighbors(grid_h, grid_w, p, allow_diagonal) }

RECURSIVE PassableClosure(_)
PassableClosure(S) == IF PassableStep(S) = S THEN S ELSE PassableClosure(PassableStep(S))

\* The goal can be reached from the start through passable pixels, both
\* taken after find_path has moved them off impassable pixels.
GoalReachable ==
    /\ start_pixel \in Pixels
    /\ goal_pixel \in Pixels
    /\ LET from == AdjustedPixel(cost_grid, grid_h, grid_w, start_pixel)
           to == AdjustedPixel(cost_grid, grid_h, grid_w, goal_pixel)
       IN  /\ from \in PassablePixels
           /\ to \in PassableClosure({ from })

\* No pixel of the returned path is impassable.
PathAvoidsImpassable ==
    \A i \in 1 .. Len(pixel_path) : cost_grid[pixel_path[i]] # Inf

\* C21 (as claimed): find_path returns None, and find_tactical_path
\* path_valid = False, whenever the goal cannot be reached through passable
\* pixels; no returned path contains an impassable pixel.
C21_AsClaimed ==
    PixelDone =>
        /\ ~GoalReachable => (pixel_path = << >> /\ ~tactical_valid)
        /\ PathAvoidsImpassable

\* C21, where it holds: when the goal can be reached through passable
\* pixels, the returned path runs from the adjusted start to the adjusted
\* goal and avoids every impassable pixel.
ReachableGoalPathAvoidsImpassable ==
    (PixelDone /\ GoalReachable) =>
        /\ pixel_path # << >>
        /\ tactical_valid
        /\ pixel_path[1] = AdjustedPixel(cost_grid, grid_h, grid_w, start_pixel)
        /\ pixel_path[Len(pixel_path)] = AdjustedPixel(cost_grid, grid_h, grid_w, goal_pixel)
        /\ PathAvoidsImpassable

\* C21, what the code does instead: None is returned only for a start or
\* goal outside the grid.
NoneOnlyOutsideGrid ==
    PixelDone =>
        (pixel_path = << >> <=> (start_pixel \notin Pixels \/ goal_pixel \notin Pixels))

\* ------------------------------------------------------------------ C22

\* The boolean flags of the PathResult find_path returned.
ResultFlags == << result.path_valid, result.path_clear >>

\* find_path moved the start or the end off an obstacle cell.
EndpointSnapped == Searched /\ (start # start_grid \/ end # end_grid)

\* find_path returned the straight-line fallback.
FellBack == Done /\ (~Searched \/ path_grid = << >>)

\* The flags of a result that needed no recovery.
FlagsWithoutRecovery ==
    (Done /\ ~EndpointSnapped /\ ~FellBack) => ResultFlags = << TRUE, TRUE >>

\* C22 (as claimed): a result produced after an endpoint snap or after the
\* no-path fallback differs in its flags from a result produced without
\* recovery, whose flags are path_valid = path_clear = True.
C22_AsClaimed ==
    (Done /\ (EndpointSnapped \/ FellBack)) => ResultFlags # << TRUE, TRUE >>

\* C22, where it holds: the fallback is signalled by path_clear = False.
FallbackObservable ==
    FellBack => ResultFlags # << TRUE, TRUE >>

\* C22, what the code does after a snap that leads to a path: the flags
\* are those of a result without recovery.
SnapLeavesNoFlag ==
    (EndpointSnapped /\ ~FellBack) => ResultFlags = << TRUE, TRUE >>

\* ------------------------------------------------------------------ C23

\* C23 (as claimed): for elevation and land-cover rasters of different
\* shapes create_cost_surface raises an error: no cost surface is returned.
C23_AsClaimed ==
    (TerrainDone /\ landcover_shape # dem_shape) => final_cost = << >>

\* C23, what the code does: for rasters of different shapes a cost surface
\* of the elevation raster's shape is returned, every cell of it a cost.
MismatchedShapesGiveSurface ==
    (TerrainDone /\ landcover_shape # dem_shape) =>
        /\ DOMAIN final_cost = Cells(dem_shape[1], dem_shape[2])
        /\ \A c \in DOMAIN final_cost : final_cost[c].kind \in { "num", "inf" }

\* ------------------------------------------------------------------ C24

\* The interval an invocation running alone smooths its path with: its
\* configuration's, or the pathfinder's own when the configuration has none.
IntervalAlone(i) ==
    IF invocations[i].waypoint_interval # 0
    THEN invocations[i].waypoint_interval
    ELSE DefaultInterval

\* An invocation has its result.
HasResult(i) == invocations[i].pc \in { "restore", "done" }

\* C24 (as claimed): under every interleaving each _generate_single_route
\* invocation returns the result it returns when run alone, here the
\* number of waypoints of its smoothed path.
C24_AsClaimed ==
    \A i \in Invocations :
        HasResult(i) =>
            invocations[i].num_waypoints =
                NumWaypoints(invocations[i].total_length_meters, IntervalAlone(i))

\* C24 (as claimed): invocations leave no trace on the pathfinder, whose
\* interval is the constructor's again once all of them have returned.
C24_IntervalRestored ==
    (\A i \in Invocations : invocations[i].pc = "done") =>
        waypoint_interval_meters = DefaultInterval

\* C24, what the code guarantees: an invocation's path is smoothed with the
\* constructor's interval or with the interval of some invocation's
\* configuration, its own or another's.
ResultUsesSomeInterval ==
    \A i \in Invocations :
        HasResult(i) =>
            \E v \in { DefaultInterval } \cup
                     ({ invocations[j].waypoint_interval : j \in Invocations } \ { 0 }) :
                invocations[i].num_waypoints =
                    NumWaypoints(invocations[i].total_length_meters, v)

\* ------------------------------------------------------------------ C25

\* A cell has been converted to a position and back.
ConvDone == pc = "conv_done" /\ conv_gps = grid_to_gps(conv_cell[1], conv_cell[2],
                                                       bounds, grid_h, grid_w)

\* C25 (as claimed): for bounds with north > south and east > west, an
\* in-grid cell converted with grid_to_gps and back with gps_to_grid is the
\* same cell, with generate_tactical_routes' functions and with the
\* detector's methods.
C25_AsClaimed ==
    ConvDone =>
        /\ conv_back.routes = conv_cell
        /\ grid_h = grid_w => conv_back.detector = conv_cell

\* C25, what the code guarantees: the cell that comes back is the cell
\* itself or its neighbour one row to the north, one column to the west,
\* or both.
RoundTripAtMostOneBack ==
    ConvDone =>
        \A back \in { conv_back.routes, conv_back.detector } :
            (back = conv_back.routes \/ grid_h = grid_w) =>
                /\ back[1] \in { conv_cell[1], conv_cell[1] - 1 }
                /\ back[2] \in { conv_cell[2], conv_cell[2] - 1 }

\* C25: on the north and west edges, and on a grid of one, two or four
\* rows and columns, the round trip is exact.
RoundTripExactOnPowersOfTwo ==
    (ConvDone /\ grid_h \in { 1, 2, 4 } /\ grid_w \in { 1, 2, 4 }) =>
        /\ conv_back.routes = conv_cell
        /\ grid_h = grid_w => conv_back.detector = conv_cell

\* ------------------------------------------------------------------ C26

\* gps_to_grid has returned the cell of a position given by the caller.
ClampDone == pc = "conv_done" /\ conv_cell = << 0, 0 >> /\ conv_gps # << >>

\* a <= b of floats.
FloatLeq(a, b) == ~FloatLess(b, a)

\* The cell is in the grid; a latitude at or beyond the north edge gives
\* row 0 and at or beyond the south edge the last row, a longitude at or
\* beyond the west edge column 0 and at or beyond the east edge the last
\* column.
ClampedCell(cell, h, w) ==
    LET lat == conv_gps[1]
        lon == conv_gps[2]
    IN  /\ cell \in Cells(h, w)
        /\ FloatLeq(FloatOfInt(bounds.north), lat) => cell[1] = 0
        /\ FloatLeq(lat, FloatOfInt(bounds.south)) => cell[1] = h - 1
        /\ FloatLeq(lon, FloatOfInt(bounds.west)) => cell[2] = 0
        /\ FloatLeq(FloatOfInt(bounds.east), lon) => cell[2] = w - 1

\* C26: for every latitude and longitude, in the bounds or outside,
\* gps_to_grid returns a cell of the grid, and a position at or beyond an
\* edge of the bounds gets the first or last row or column on that side:
\* clamped, never wrapped.
C26_GpsToGridClamps ==
    ClampDone =>
        /\ ClampedCell(conv_back.routes, grid_h, grid_w)
        /\ ClampedCell(conv_back.detector, grid_h, grid_h)

\* C26 witness: a position north of the north edge and east of the east
\* edge of a grid of several rows and columns has been converted, to the
\* first row and the last column.
C26_Witness ==
    /\ ClampDone
    /\ grid_h > 1
    /\ grid_w > 1
    /\ FloatLess(FloatOfInt(bounds.north), conv_gps[1])
    /\ FloatLess(FloatOfInt(bounds.east), conv_gps[2])
    /\ conv_back.routes = << 0, grid_w - 1 >>

\* C26 witness of the other side: a position south of the south edge and
\* west of the west edge gets the last row and the first column.
BeyondSouthWestReached ==
    /\ ClampDone
    /\ grid_h > 1
    /\ FloatLess(conv_gps[1], FloatOfInt(bounds.south))
    /\ FloatLess(conv_gps[2], FloatOfInt(bounds.west))
    /\ conv_back.routes = << grid_h - 1, 0 >>
    /\ conv_back.detector = << grid_h - 1, 0 >>

\* ------------------------------------------------------------------ C27

\* The request_ids of a sequence of entries.
IdsOf(s) == { s[i].request_id : i \in 1 .. Len(s) }

\* The calls that are the last ones made with their request_id, in the
\* order they were made.
LastCalls ==
    SelectSeq([ i \in 1 .. Len(calls) |-> [ at |-> i, entry |-> calls[i] ] ],
              LAMBDA c : \A j \in c.at + 1 .. Len(calls) :
                             calls[j].request_id # c.entry.request_id)

\* The entries of the most recently added distinct request_ids, at most
\* max_entries of them, oldest first.
MostRecentDistinct ==
    LET kept == Min(max_entries, Len(LastCalls))
    IN  [ i \in 1 .. kept |-> LastCalls[Len(LastCalls) - kept + i].entry ]

\* count()
Count == Len(store)

\* The store is never over max_entries and holds the most recently added
\* distinct request_ids, each with the entry it was last added with.
StoreIsMostRecent ==
    pc = "backlog" => (Count <= max_entries /\ store = MostRecentDistinct)

\* A step that adds an entry whose request_id is a key leaves the count as
\* it is and the entry last, the most recent.
ReAddReplaces ==
    (/\ pc = "backlog"
     /\ Len(calls') = Len(calls) + 1
     /\ calls'[Len(calls')].request_id \in IdsOf(store))
        => (/\ Len(store') = Count
            /\ store'[Len(store')] = calls'[Len(calls')]
            /\ IdsOf(store') = IdsOf(store))

\* C27: after any sequence of add_entry and clear calls count() is at most
\* max_entries and the store holds exactly the most recently added
\* distinct request_ids, the oldest dropped; re-adding a request_id of the
\* store replaces its entry, keeps the count and makes it the most recent.
C27_StoreKeepsMostRecent == [] StoreIsMostRecent /\ [][ReAddReplaces]_vars

\* C27 witness: entries were dropped from a full store, and the entry of
\* a request_id added before stands last with the data of its second call.
C27_Witness ==
    /\ pc = "backlog"
    /\ max_entries = 2
    /\ Len(calls) = 4
    /\ Count = max_entries
    /\ calls[1].request_id = calls[4].request_id
    /\ calls[1].data # calls[4].data
    /\ calls[2].request_id # calls[3].request_id
    /\ calls[2].request_id # calls[1].request_id
    /\ calls[3].request_id # calls[1].request_id
    /\ store[2] = calls[4]

\* ------------------------------------------------------------------ C28

RECURSIVE SequentialStores(_, _)
\* The stores left by the add_entry calls of the given threads made one
\* after the other on the store s, in every order.
SequentialStores(s, threads) ==
    IF threads = {}
    THEN { s }
    ELSE UNION { SequentialStores(BacklogAddEntry(s, adders[i].entry, max_entries),
                                  threads \ { i }) : i \in threads }

\* Every add_entry call has returned or raised.
AllAddersEnded == \A i \in Adders : adders[i].pc \in { "done", "raised" }

\* C28 (as claimed): under every interleaving of concurrent add_entry
\* calls no call raises, and the store left when all have returned is the
\* store some sequential order of the calls leaves.
C28_AsClaimed ==
    /\ \A i \in Adders : adders[i].pc # "raised"
    /\ (Adders # {} /\ AllAddersEnded) => store \in SequentialStores(<< >>, Adders)

\* C28 (as claimed), the second half alone: when all calls have returned
\* and none has raised, the store is one a sequential order leaves.
C28_SequentialWhenNoneRaised ==
    (Adders # {} /\ \A i \in Adders : adders[i].pc = "done")
        => store \in SequentialStores(<< >>, Adders)

\* C28, what the code guarantees: when all calls have ended the store is
\* not over max_entries, and its entries are entries that were added.
EndedStoreWithinLimit ==
    (Adders # {} /\ AllAddersEnded) =>
        /\ Len(store) <= max_entries
        /\ \A k \in 1 .. Len(store) : \E i \in Adders : store[k] = adders[i].entry

\* ------------------------------------------------------------------ C29

\* The moves of _astar: the 8 neighbours, or the 4 cardinal ones when
\* allow_diagonal is False.
AllowedMoves ==
    { d \in (-1 .. 1) \X (-1 .. 1) :
          /\ d # << 0, 0 >>
          /\ allow_diagonal \/ d[1] = 0 \/ d[2] = 0 }

\* C29: a path returned by _astar starts at the start cell it was given,
\* ends at the end cell, visits no cell twice, stays inside the grid, and
\* each step of it is one allowed move.
C29_PathIsSimpleWalk ==
    PathFound =>
        /\ path_grid[1] = start
        /\ path_grid[Len(path_grid)] = end
        /\ \A i, j \in 1 .. Len(path_grid) : path_grid[i] = path_grid[j] => i = j
        /\ \A i \in 1 .. Len(path_grid) : path_grid[i] \in GridCells
        /\ \A i \in 1 .. Len(path_grid) - 1 :
               << path_grid[i + 1][1] - path_grid[i][1],
                  path_grid[i + 1][2] - path_grid[i][2] >> \in AllowedMoves

\* C29 witness: without diagonal moves _astar returned a path of five or
\* more cells that goes around an obstacle, its ends in different rows and
\* columns.
C29_Witness ==
    /\ PathFound
    /\ ~allow_diagonal
    /\ Len(path_grid) >= 5
    /\ start[1] # end[1]
    /\ start[2] # end[2]
    /\ \E c \in GridCells : obstacle_mask[c] = 1

\* ------------------------------------------------------------------ C30

\* The breadth-first snap has no cell twice in its queue and no cell in
\* its queue that is not in visited: a cell is appended once at most.
EachCellQueuedOnce ==
    /\ \A i, j \in 1 .. Len(bfs_queue) : bfs_queue[i] = bfs_queue[j] => i = j
    /\ SeqToSet(bfs_queue) \subseteq bfs_visited
    /\ bfs_visited \subseteq GridCells

\* A step of the snap's loop appends only cells that were not visited
\* before, and no cell leaves visited while the loop runs.
SnapVisitsOnce ==
    (pc \in { "snap_start_loop", "snap_end_loop" } /\ pc' = pc) =>
        /\ bfs_visited \subseteq bfs_visited'
        /\ \E k \in 0 .. 4 :
               /\ Len(bfs_queue') = Len(bfs_queue) - 1 + k
               /\ \A i \in 1 .. k :
                      bfs_queue'[Len(bfs_queue) - 1 + i] \in bfs_visited' \ bfs_visited

\* A step of the A* loop that changes the closed set adds one cell that
\* was not in it, the cell popped; the closed set never loses a cell, and
\* a step at the head of the loop takes one entry off the open set.
AstarFinalizesOnce ==
    /\ (pc = "astar" /\ closed_set' # closed_set) =>
           \E top \in open_set :
               /\ top.pos \notin closed_set
               /\ closed_set' = closed_set \cup { top.pos }
    /\ pc \in { "astar", "neighbors" } => closed_set \subseteq closed_set'
    /\ (pc = "astar" /\ open_set # {}) =>
           \E top \in open_set : open_set' = open_set \ { top }

\* C30: for every obstacle mask and every start and end cell find_path
\* terminates: the breadth-first snap appends each cell at most once, the
\* A* loop finalizes each cell at most once, and find_path returns, with
\* the open set empty or the end cell popped.
C30_FindPathTerminates ==
    /\ <> Done
    /\ [] EachCellQueuedOnce
    /\ [][SnapVisitsOnce /\ AstarFinalizesOnce]_vars

\* C30 witness: find_path has returned after the snap moved the start,
\* the A* loop finalized two or more cells and the open set was emptied.
C30_Witness ==
    /\ OpenSetEmptied
    /\ start # start_grid
    /\ Cardinality(closed_set) >= 2
    /\ open_set = {}

\* C30: the open set is empty or the end cell was popped when find_path
\* has returned after a search.
ReturnsOnEmptyOrEnd ==
    Searched => (open_set = {} \/ (path_grid # << >> /\ path_grid[Len(path_grid)] = end))

\* C30: run statement by statement, find_path moves the endpoints and
\* returns the path that the snap and _astar as whole calls give.
StatementsAgreeWithCalls ==
    Searched =>
        /\ start = SnapEndpoint(obstacle_mask, grid_h, grid_w, start_grid)
        /\ end = SnapEndpoint(obstacle_mask, grid_h, grid_w, end_grid)
        /\ path_grid = AstarRun(obstacle_mask, grid_h, grid_w, allow_diagonal, end,
                                AstarInit(start, end))

\* C30: the next pop of the A* loop takes a cell that is already in the
\* closed set, the case `if current in closed_set: continue` is for.
ClosedCellOnTop ==
    /\ pc = "astar"
    /\ open_set # {}
    /\ HeapPop(open_set).pos \in closed_set

====
